---- MODULE Spec2Model ----
(***************************************************************************)
(* Recurring-task lifecycle of the TPS global context menu plugin.         *)
(*                                                                         *)
(* Time is the value of Date.getTime() in whole minutes (UTC minutes since *)
(* 1970-01-01T00:00Z).  Local calendar fields are obtained through the     *)
(* host time zone `tz`, as the JavaScript Date getters and setters do.     *)
(***************************************************************************)
EXTENDS Integers, Sequences, FiniteSets, TLC

VARIABLES
    tz,       \* the host time zone the Date objects work in
    store,    \* vault + frontmatter: file name -> frontmatter record
    panels,   \* the open panels: entries (file, frontmatter snapshot), select value
    last,     \* record of the last handler run (history variable)
    calc,     \* input and result of the last computeNextOccurrence call
    runs,     \* the status handlers in flight, in the order they started
    ui        \* the views of the workspace and the fields of the plugin, of
              \* its MenuController and of its PersistentMenuManager

vars == <<tz, store, panels, last, calc, runs, ui>>

(***************************************************************************)
(* Dates                                                                   *)
(***************************************************************************)
MinutesPerDay == 1440

\* days since 1970-01-01 of the civil date y-m-d, m in 1..12; d may exceed
\* the length of the month and then runs on into the following month
DaysOfYearOfEra(era, yoe, doy) ==
    era * 146097 + (yoe * 365 + yoe \div 4 - yoe \div 100 + doy) - 719468

DaysOfMarchYear(yy, mp, d) ==
    DaysOfYearOfEra(yy \div 400, yy % 400, (153 * mp + 2) \div 5 + d - 1)

DaysFromCivil(y, m, d) ==
    DaysOfMarchYear(IF m <= 2 THEN y - 1 ELSE y, IF m > 2 THEN m - 3 ELSE m + 9, d)

\* civil date [y, m, d] (m in 1..12) of a day number, by way of the 400-year
\* era, the day of the era, the year of the era, the day of the year (from
\* 1 March) and the month counted from March
CivilOfMonth(era, yoe, doy, mp) ==
    [y |-> yoe + era * 400 + (IF mp < 10 THEN 0 ELSE 1),
     m |-> IF mp < 10 THEN mp + 3 ELSE mp - 9,
     d |-> doy - (153 * mp + 2) \div 5 + 1]

CivilOfDayOfYear(era, yoe, doy) ==
    CivilOfMonth(era, yoe, doy, (5 * doy + 2) \div 153)

CivilOfYearOfEra(era, doe, yoe) ==
    CivilOfDayOfYear(era, yoe, doe - (365 * yoe + yoe \div 4 - yoe \div 100))

CivilOfDayOfEra(era, doe) ==
    CivilOfYearOfEra(era, doe,
        (doe - doe \div 1460 + doe \div 36524 - doe \div 146096) \div 365)

CivilOfEra(z, era) == CivilOfDayOfEra(era, z - era * 146097)

CivilFromDays(z0) == CivilOfEra(z0 + 719468, (z0 + 719468) \div 146097)

\* 2024-01-01 (a Monday) as a day number since 1970-01-01
Day20240101 == DaysFromCivil(2024, 1, 1)

\* A time zone: standard offset in minutes and the UTC intervals [from, to)
\* in which clocks are one hour ahead.
UTCZone == [std |-> 0, dst |-> {}]

\* US Eastern time, daylight saving periods of 2024 and 2025
\* 2024-03-10T07:00Z .. 2024-11-03T06:00Z, 2025-03-09T07:00Z .. 2025-11-02T06:00Z
EasternZone ==
    [std |-> -300,
     dst |-> { <<(Day20240101 + 69) * MinutesPerDay + 420,
                 (Day20240101 + 307) * MinutesPerDay + 360>>,
               <<(Day20240101 + 433) * MinutesPerDay + 420,
                 (Day20240101 + 671) * MinutesPerDay + 360>> }]

Zones == {UTCZone, EasternZone}

InDST(zone, t) == \E iv \in zone.dst : t >= iv[1] /\ t < iv[2]

\* local wall-clock minutes of the instant t
LocalOf(zone, t) == t + zone.std + (IF InDST(zone, t) THEN 60 ELSE 0)

\* instant of a local wall-clock time
UTCOfLocal(zone, lt) ==
    LET a == lt - zone.std - 60
    IN  IF InDST(zone, a) THEN a ELSE lt - zone.std

\* Date.getDate(), getMonth() (0-based), getFullYear(), getDay()
LocalDay(zone, t)  == LocalOf(zone, t) \div MinutesPerDay
GetDate(zone, t)   == CivilFromDays(LocalDay(zone, t)).d
GetMonth(zone, t)  == CivilFromDays(LocalDay(zone, t)).m - 1
GetFullYear(zone, t) == CivilFromDays(LocalDay(zone, t)).y
GetDay(zone, t)    == ((LocalDay(zone, t) + 4) % 7)

\* date.setDate(date.getDate() + 1)
AddLocalDay(zone, t) ==
    UTCOfLocal(zone, LocalOf(zone, t) + MinutesPerDay)

\* date.setMonth(date.getMonth() + 1): same day-of-month number in the next
\* month; a day past the end of that month runs on into the month after
MonthLater(c) ==
    DaysFromCivil(IF c.m = 12 THEN c.y + 1 ELSE c.y,
                  IF c.m = 12 THEN 1 ELSE c.m + 1,
                  c.d)

AddLocalMonthAt(zone, lt) ==
    UTCOfLocal(zone, MonthLater(CivilFromDays(lt \div MinutesPerDay)) * MinutesPerDay
                     + (lt % MinutesPerDay))

AddLocalMonth(zone, t) == AddLocalMonthAt(zone, LocalOf(zone, t))

\* toISOString().slice(0, 10): the UTC calendar day of the instant
ISODate(t) == t \div MinutesPerDay

(***************************************************************************)
(* Recurrence rule text.  A rule text is the string cut where split(';')   *)
(* and split('=') cut it: an optional RRULE: prefix and KEY=VALUE parts.   *)
(* kind: "absent" (no field), "empty" (''), "blank" (white space only),    *)
(* "text".  A value carries its text, what Number() makes of it (nan, or   *)
(* the number v / den) and its split(',') list.                            *)
(***************************************************************************)
TextVal(s) == [txt |-> s, nan |-> TRUE, v |-> 0, den |-> 1, list |-> <<s>>]
NumVal(k)  == [txt |-> "<number>", nan |-> FALSE, v |-> k, den |-> 1, list |-> <<"<number>">>]
HalfVal(k) == [txt |-> "<number>", nan |-> FALSE, v |-> k, den |-> 2, list |-> <<"<number>">>]
ListVal(q) == [txt |-> "<list>", nan |-> TRUE, v |-> 0, den |-> 1, list |-> q]
NoVal      == [txt |-> "", nan |-> FALSE, v |-> 0, den |-> 1, list |-> <<>>]

Part(k, val) == [key |-> k, val |-> val]

NoRule    == [kind |-> "absent", pre |-> "", parts |-> <<>>]
EmptyRule == [kind |-> "empty", pre |-> "", parts |-> <<>>]
BlankRule == [kind |-> "blank", pre |-> "", parts |-> <<>>]
RuleText(pre, parts) == [kind |-> "text", pre |-> pre, parts |-> parts]

\* String.prototype.toUpperCase on the words the model uses
ToUpperCase(s) ==
    CASE s = "freq"     -> "FREQ"
      [] s = "interval" -> "INTERVAL"
      [] s = "byday"    -> "BYDAY"
      [] s = "daily"    -> "DAILY"
      [] s = "weekly"   -> "WEEKLY"
      [] s = "monthly"  -> "MONTHLY"
      [] s = "yearly"   -> "YEARLY"
      [] s = "mo"       -> "MO"
      [] s = "we"       -> "WE"
      [] s = "xx"       -> "XX"
      [] s = "rrule:"   -> "RRULE:"
      [] OTHER          -> s

RECURSIVE MapUpper(_)
MapUpper(q) ==
    IF q = <<>> THEN <<>>
    ELSE (IF Head(q) = "" THEN <<>> ELSE <<ToUpperCase(Head(q))>>)
         \o MapUpper(Tail(q))

\* the forEach body of parseRecurrence applied to one part
ParsePart(result, part) ==
    IF part.key = "" \/ part.val.txt = "" THEN result
    ELSE LET k == ToUpperCase(part.key)
             v == part.val
         IN  CASE k = "FREQ" ->
                    [result EXCEPT !.freq = ToUpperCase(v.txt)]
               [] k = "INTERVAL" ->
                    IF ~v.nan /\ v.v > 0
                    THEN [result EXCEPT !.interval = v.v, !.den = v.den]
                    ELSE result
               [] k = "BYDAY" ->
                    [result EXCEPT !.byDay = MapUpper(v.list)]
               [] OTHER -> result

RECURSIVE ParseParts(_, _)
ParseParts(result, parts) ==
    IF parts = <<>> THEN result
    ELSE ParseParts(ParsePart(result, Head(parts)), Tail(parts))

\* parseRecurrence; freq = "" stands for null, and the interval is the
\* number interval / den
parseRecurrence(rrule) ==
    ParseParts([freq |-> "", interval |-> 1, den |-> 1, byDay |-> <<>>], rrule.parts)

\* incrementRecurrence
incrementRecurrence(zone, date, parsed) ==
    LET freq == IF parsed.freq = "" THEN "DAILY" ELSE parsed.freq
    IN  IF freq = "MONTHLY" THEN AddLocalMonth(zone, date)
        ELSE AddLocalDay(zone, date)

\* getWeekdayCode
getWeekdayCode(day) ==
    IF day \in 0..6 THEN <<"SU", "MO", "TU", "WE", "TH", "FR", "SA">>[day + 1]
    ELSE "MO"

InSeq(x, q) == \E i \in 1..Len(q) : q[i] = x

\* Math.floor((candidate.getTime() - base.getTime()) / (1000*60*60*24))
DaysDiff(candidate, base) == (candidate - base) \div MinutesPerDay

\* matchesRecurrence accepting a candidate less than a whole day after base
matchesRecurrence_SameDay(zone, candidate, base, parsed) ==
    LET freq     == IF parsed.freq = "" THEN "DAILY" ELSE parsed.freq
        interval == IF parsed.interval = 0 THEN 1 ELSE parsed.interval
        daysDiff == DaysDiff(candidate, base)
    IN  IF daysDiff < 0 THEN FALSE
        ELSE IF freq = "DAILY" THEN (daysDiff * parsed.den) % interval = 0
        ELSE IF freq = "WEEKLY" THEN
            LET weeksDiff == daysDiff \div 7
            IN  IF (weeksDiff * parsed.den) % interval # 0 THEN FALSE
                ELSE IF parsed.byDay # <<>>
                     THEN InSeq(getWeekdayCode(GetDay(zone, candidate)), parsed.byDay)
                     ELSE TRUE
        ELSE IF freq = "MONTHLY" THEN
            LET monthsDiff ==
                    (GetFullYear(zone, candidate) - GetFullYear(zone, base)) * 12
                    + (GetMonth(zone, candidate) - GetMonth(zone, base))
            IN  IF monthsDiff <= 0 THEN FALSE
                ELSE IF (monthsDiff * parsed.den) % interval # 0 THEN FALSE
                ELSE GetDate(zone, candidate) = GetDate(zone, base)
        ELSE freq = "DAILY"

\* matchesRecurrence; n % (interval / den) is 0 exactly when
\* (n * den) % interval is
matchesRecurrence(zone, candidate, base, parsed) ==
    LET freq     == IF parsed.freq = "" THEN "DAILY" ELSE parsed.freq
        interval == IF parsed.interval = 0 THEN 1 ELSE parsed.interval
        daysDiff == DaysDiff(candidate, base)
    IN  IF daysDiff <= 0 THEN FALSE
        ELSE IF freq = "DAILY" THEN (daysDiff * parsed.den) % interval = 0
        ELSE IF freq = "WEEKLY" THEN
            LET weeksDiff == daysDiff \div 7
            IN  IF (weeksDiff * parsed.den) % interval # 0 THEN FALSE
                ELSE IF parsed.byDay # <<>>
                     THEN InSeq(getWeekdayCode(GetDay(zone, candidate)), parsed.byDay)
                     ELSE TRUE
        ELSE IF freq = "MONTHLY" THEN
            LET monthsDiff ==
                    (GetFullYear(zone, candidate) - GetFullYear(zone, base)) * 12
                    + (GetMonth(zone, candidate) - GetMonth(zone, base))
            IN  IF monthsDiff <= 0 THEN FALSE
                ELSE IF (monthsDiff * parsed.den) % interval # 0 THEN FALSE
                ELSE GetDate(zone, candidate) = GetDate(zone, base)
        ELSE freq = "DAILY"

maxIterations == 500

NoDate == [found |-> FALSE, t |-> 0, iterations |-> 0]

\* one round of the while loop of computeNextOccurrence: the loop test,
\* then the body; a finished search is left as it is
\* the test of the candidate c in the round that makes n rounds
TestCandidate(zone, baseDate, parsed, c, n) ==
    [found |-> matchesRecurrence(zone, c, baseDate, parsed), t |-> c, iterations |-> n]

LoopRound_OneMore(zone, baseDate, parsed, st) ==
    IF st.found \/ ~(st.iterations <= maxIterations) THEN st
    ELSE TestCandidate(zone, baseDate, parsed,
                       incrementRecurrence(zone, st.t, parsed), st.iterations + 1)

LoopRound(zone, baseDate, parsed, st) ==
    IF st.found \/ ~(st.iterations < maxIterations) THEN st
    ELSE TestCandidate(zone, baseDate, parsed,
                       incrementRecurrence(zone, st.t, parsed), st.iterations + 1)

\* n rounds of the loop, one after the other
RECURSIVE LoopRounds(_, _, _, _, _)
LoopRounds(zone, baseDate, parsed, st, n) ==
    IF n = 0 THEN st
    ELSE IF n = 1 THEN LoopRound(zone, baseDate, parsed, st)
    ELSE LET half == LoopRounds(zone, baseDate, parsed, st, n \div 2)
         IN  IF half.found THEN half
             ELSE LoopRounds(zone, baseDate, parsed, half, n - (n \div 2))

\* the while loop of computeNextOccurrence, run until it exits; the result
\* is the returned Date (found) or null, with the number of rounds made
LoopExit(st) ==
    IF st.found THEN st ELSE [found |-> FALSE, t |-> 0, iterations |-> st.iterations]

SearchLoop(zone, baseDate, parsed) ==
    LoopExit(LoopRounds(zone, baseDate, parsed,
                        [found |-> FALSE, t |-> baseDate, iterations |-> 0],
                        maxIterations + 2))

\* A scheduled value: absent, a string new Date() cannot parse, or an instant
NoTime     == [kind |-> "absent", t |-> 0]
BadTime    == [kind |-> "bad", t |-> 0]
TimeAt(t)  == [kind |-> "time", t |-> t]

\* computeNextOccurrence; the result counts the step-and-test iterations
computeNextOccurrence_NoFreqCheck(zone, rrule, scheduled) ==
    LET parsed == parseRecurrence(rrule)
    IN  IF scheduled.kind # "time" THEN NoDate
        ELSE SearchLoop(zone, scheduled.t, parsed)

computeNextOccurrence(zone, rrule, scheduled) ==
    LET parsed == parseRecurrence(rrule)
    IN  IF scheduled.kind # "time" \/ parsed.freq = "" THEN NoDate
        ELSE SearchLoop(zone, scheduled.t, parsed)

\* no call of computeNextOccurrence on record yet
CalcIdle == [pc |-> "idle", rule |-> NoRule, scheduled |-> NoTime, res |-> NoDate]

(***************************************************************************)
(* File names.  A name is a base, a sequence of tokens (word, one blank,   *)
(* YYYY-MM-DD date stamp), and an extension.                               *)
(***************************************************************************)
W(i)   == [k |-> "w", d |-> i]
SP     == [k |-> "sp", d |-> 0]
DT(dd) == [k |-> "date", d |-> dd]

RECURSIVE TrimStart(_)
TrimStart(q) ==
    IF q # <<>> /\ Head(q) = SP THEN TrimStart(Tail(q)) ELSE q

RECURSIVE TrimEnd(_)
TrimEnd(q) ==
    IF q # <<>> /\ q[Len(q)] = SP THEN TrimEnd(SubSeq(q, 1, Len(q) - 1)) ELSE q

\* String.prototype.trim
Trim(q) == TrimEnd(TrimStart(q))

\* generateNextName
generateNextName(originalName, nextDate) ==
    LET dateStr  == DT(ISODate(nextDate))
        ext      == originalName.ext
        baseName == Trim(originalName.base)
        hasDate  == baseName # <<>> /\ baseName[Len(baseName)].k = "date"
        prefix   == SubSeq(baseName, 1, Len(baseName) - 1)
        replaced == IF hasDate THEN Trim(prefix) \o <<SP, dateStr>> ELSE baseName
    IN  IF replaced # baseName
        THEN [base |-> Trim(replaced), ext |-> ext]
        ELSE [base |-> baseName \o (IF baseName # <<>> THEN <<SP>> ELSE <<>>)
                                \o <<dateStr>>,
              ext |-> ext]

(***************************************************************************)
(* Frontmatter records.  Every field is always there in the model; each    *)
(* has a value that stands for "the key is not in the frontmatter".        *)
(***************************************************************************)
NoEstimate  == [kind |-> "absent", v |-> 0]
Minutes(n)  == [kind |-> "num", v |-> n]

Absent(key) ==
    CASE key = "status"         -> ""
      [] key = "recurrenceRule" -> NoRule
      [] key = "recurrence"     -> NoRule
      [] key = "scheduled"      -> NoTime
      [] key = "sheduledEnd"    -> NoTime
      [] key = "timeEstimate"   -> NoEstimate
      [] key = "title"          -> <<>>

\* value == null || value === ''
IsNullOrEmpty(key, value) ==
    CASE key \in {"recurrenceRule", "recurrence"} -> value.kind \in {"absent", "empty"}
      [] OTHER -> value = Absent(key)

\* computeEndISO
computeEndISO(fm) ==
    IF fm.scheduled.kind = "absent" THEN NoTime
    ELSE IF fm.scheduled.kind # "time" THEN NoTime
    ELSE IF fm.timeEstimate.kind # "num" \/ fm.timeEstimate.v = 0 THEN NoTime
    ELSE TimeAt(fm.scheduled.t + fm.timeEstimate.v)

\* getRecurrenceValue: fm.recurrenceRule || fm.recurrence
getRecurrenceValue(fm) ==
    IF fm.recurrenceRule.kind \in {"absent", "empty"}
    THEN (IF fm.recurrence.kind = "absent" THEN EmptyRule ELSE fm.recurrence)
    ELSE fm.recurrenceRule

(***************************************************************************)
(* A handler run.  x is the run so far: the store, the number of store     *)
(* calls made, the call that raises (failAt, 0 for none), whether the      *)
(* exception has been raised, and the notes of the run.  Once raised,      *)
(* nothing further of the handler runs: it has no try/catch.               *)
(***************************************************************************)
\* one call of the store (processFrontMatter, vault.copy): it raises if it
\* is the failAt-th of the run
StoreCall(x) ==
    [x EXCEPT !.calls = @ + 1, !.thrown = (x.calls + 1 = x.failAt)]

\* updateFrontmatterValue
updateFrontmatterValue(x, file, key, value) ==
    IF x.thrown THEN x
    ELSE LET y == StoreCall(x)
         IN  IF y.thrown \/ file \notin DOMAIN y.store THEN y
             ELSE [y EXCEPT !.store[file][key] =
                        IF IsNullOrEmpty(key, value) THEN Absent(key) ELSE value]

\* the processFrontMatter call of setRecurrenceFields
setRecurrenceFields_KeepsAlias(x, file, value) ==
    IF x.thrown THEN x
    ELSE LET y == StoreCall(x)
             trimmed == IF value.kind \in {"absent", "empty", "blank"}
                        THEN EmptyRule ELSE value
         IN  IF y.thrown \/ file \notin DOMAIN y.store THEN y
             ELSE [y EXCEPT !.store[file].recurrenceRule =
                                IF trimmed.kind = "empty" THEN NoRule ELSE trimmed]

setRecurrenceFields(x, file, value) ==
    IF x.thrown THEN x
    ELSE LET y == StoreCall(x)
             trimmed == IF value.kind \in {"absent", "empty", "blank"}
                        THEN EmptyRule ELSE value
         IN  IF y.thrown \/ file \notin DOMAIN y.store THEN y
             ELSE [y EXCEPT !.store[file].recurrenceRule =
                                IF trimmed.kind = "empty" THEN NoRule ELSE trimmed,
                            !.store[file].recurrence = NoRule]

\* the snapshot after setRecurrenceFields
FmAfterSetRecurrence(fm, value) ==
    [fm EXCEPT !.recurrenceRule = IF value.kind \in {"absent", "empty", "blank"}
                                  THEN NoRule ELSE value,
               !.recurrence = NoRule]

\* vault.copy(file, newPath)
VaultCopy(x, file, newPath) ==
    IF x.thrown THEN x
    ELSE LET y == StoreCall(x)
         IN  IF y.thrown THEN y
             ELSE [y EXCEPT !.store =
                     [n \in DOMAIN y.store \cup {newPath} |->
                         IF n = newPath THEN y.store[file] ELSE y.store[n]]]

\* what a run of handleRecurrenceCompletion notes: how it ended, the
\* destination it computed and the next occurrence
WfNote(o, dest, nx) == [outcome |-> o, dest |-> dest, next |-> nx]

\* handleRecurrenceCompletion from vault.copy on: the copy and the six
\* writes to the frontmatter of the new file
CreateSuccessor_WritesSource(x, file, fm, newName, nextDate) ==
    LET x1 == VaultCopy(x, file, newName)
        x2 == updateFrontmatterValue(x1, newName, "recurrenceRule", NoRule)
        x3 == updateFrontmatterValue(x2, newName, "recurrence", NoRule)
        x4 == updateFrontmatterValue(x3, file, "status", "open")
        newScheduledISO == TimeAt(nextDate.t)
        x5 == updateFrontmatterValue(x4, newName, "scheduled", newScheduledISO)
        endISO == computeEndISO([scheduled |-> newScheduledISO,
                                 timeEstimate |-> fm.timeEstimate])
        x6 == updateFrontmatterValue(x5, newName, "sheduledEnd", endISO)
        x7 == updateFrontmatterValue(x6, newName, "title", newName.base)
    IN  [x7 EXCEPT !.wf = WfNote(IF x7.thrown THEN "raised" ELSE "created",
                                 newName, newScheduledISO)]

CreateSuccessor(x, file, fm, newName, nextDate) ==
    LET x1 == VaultCopy(x, file, newName)
        x2 == updateFrontmatterValue(x1, newName, "recurrenceRule", NoRule)
        x3 == updateFrontmatterValue(x2, newName, "recurrence", NoRule)
        x4 == updateFrontmatterValue(x3, newName, "status", "open")
        newScheduledISO == TimeAt(nextDate.t)
        x5 == updateFrontmatterValue(x4, newName, "scheduled", newScheduledISO)
        endISO == computeEndISO([scheduled |-> newScheduledISO,
                                 timeEstimate |-> fm.timeEstimate])
        x6 == updateFrontmatterValue(x5, newName, "sheduledEnd", endISO)
        x7 == updateFrontmatterValue(x6, newName, "title", newName.base)
    IN  [x7 EXCEPT !.wf = WfNote(IF x7.thrown THEN "raised" ELSE "created",
                                 newName, newScheduledISO)]

\* handleRecurrenceCompletion from the collision check on, newName being the
\* name generateNextName gave
CopyToNewPath_NoCollisionCheck(x, file, fm, newName, nextDate) ==
    CreateSuccessor(x, file, fm, newName, nextDate)

CopyToNewPath(x, file, fm, newName, nextDate) ==
    IF newName \in DOMAIN x.store
    THEN [x EXCEPT !.wf = WfNote("collision", newName, TimeAt(nextDate.t))]
    ELSE CreateSuccessor(x, file, fm, newName, nextDate)

\* handleRecurrenceCompletion once computeNextOccurrence has returned nextDate
CompleteWithNext(x, file, fm, nextDate) ==
    IF ~nextDate.found
    THEN [x EXCEPT !.wf = WfNote("nonext", file, NoTime)]
    ELSE CopyToNewPath(x, file, fm, generateNextName(file, nextDate.t), nextDate)

\* handleRecurrenceCompletion(file, fm)
handleRecurrenceCompletion(zone, x, file, fm) ==
    IF getRecurrenceValue(fm).kind \in {"absent", "empty"}
    THEN [x EXCEPT !.wf = WfNote("norule", file, NoTime)]
    ELSE IF fm.scheduled.kind = "absent"
    THEN [x EXCEPT !.wf = WfNote("noscheduled", file, NoTime)]
    ELSE CompleteWithNext(x, file, fm,
            computeNextOccurrence(zone, getRecurrenceValue(fm), fm.scheduled))

NoNote == [outcome |-> "notrun", dest |-> [base |-> <<>>, ext |-> ""], next |-> NoTime]

\* the start of a handler run on the store st in which the failAt-th store
\* call raises
StartRun(st, failAt) ==
    [store |-> st, calls |-> 0, failAt |-> failAt, thrown |-> FALSE,
     wf |-> NoNote, fms |-> <<>>, log |-> <<>>]

STATUSES == <<"open", "working", "blocked", "wont-do", "complete">>

\* the end of the callback of the status row for one entry: the run x3 with
\* the entry's snapshot fm2 and the record of what the callback did
StatusEntryDone(note, fm2, x3) ==
    [x3 EXCEPT
        !.fms = Append(@, fm2),
        !.log = Append(@, note @@ [afterEntry |-> x3.store,
                                   raised     |-> x3.thrown,
                                   wf         |-> x3.wf])]

\* the callback of the status row of buildSpecialPanel for one entry
\* (file, fm)
StatusEntry(zone, x, file, fm, value) ==
    LET oldStatus == IF fm.status = "" THEN "open" ELSE fm.status
        x1  == updateFrontmatterValue(x, file, "status", value)
        fm1 == IF x1.thrown THEN fm ELSE [fm EXCEPT !.status = value]
        x2  == IF value = "blocked" THEN setRecurrenceFields(x1, file, EmptyRule)
               ELSE x1
        fm2 == IF value = "blocked" /\ ~x2.thrown
               THEN FmAfterSetRecurrence(fm1, EmptyRule) ELSE fm1
        invoked == /\ ~x2.thrown
                   /\ value \in {"complete", "wont-do"}
                   /\ oldStatus # value
    IN  StatusEntryDone(
            [file        |-> file,
             priorStored |-> x.store[file].status,
             oldStatus   |-> oldStatus,
             written     |-> ~x1.thrown,
             invoked     |-> invoked,
             atWorkflow  |-> x2.store],
            fm2,
            IF invoked
            THEN handleRecurrenceCompletion(zone, [x2 EXCEPT !.wf = NoNote], file, fm2)
            ELSE [x2 EXCEPT !.wf = NoNote])

\* the callback of the scheduled row for one entry
ScheduledEntry(x, file, fm, value) ==
    LET x1    == updateFrontmatterValue(x, file, "scheduled", value)
        fm1   == IF x1.thrown THEN fm ELSE [fm EXCEPT !.scheduled = value]
        endISO == computeEndISO(fm1)
        x2    == updateFrontmatterValue(x1, file, "sheduledEnd", endISO)
        fm2   == IF x2.thrown THEN fm1 ELSE [fm1 EXCEPT !.sheduledEnd = endISO]
    IN  [x2 EXCEPT !.fms = Append(@, fm2)]

\* the callback of the end row for one entry
EndEntry(x, file, fm, minutes, newEndISO) ==
    IF fm.scheduled.kind = "absent" THEN [x EXCEPT !.fms = Append(@, fm)]
    ELSE LET x1  == updateFrontmatterValue(x, file, "timeEstimate", Minutes(minutes))
             fm1 == IF x1.thrown THEN fm ELSE [fm EXCEPT !.timeEstimate = Minutes(minutes)]
             x2  == updateFrontmatterValue(x1, file, "sheduledEnd", newEndISO)
             fm2 == IF x2.thrown THEN fm1 ELSE [fm1 EXCEPT !.sheduledEnd = newEndISO]
         IN  [x2 EXCEPT !.fms = Append(@, fm2)]

\* the end of a one-call callback: the run x1 after the call, with the
\* entry's snapshot as it was (fm) if the call raised and as the callback
\* set it (fm1) if not
StepDone(x1, fm, fm1) ==
    [x1 EXCEPT !.fms = Append(@, IF x1.thrown THEN fm ELSE fm1)]

\* normalizeRecurrence
normalizeRecurrence(value) ==
    IF value.kind \in {"absent", "empty", "blank"} THEN EmptyRule
    ELSE IF ToUpperCase(value.pre) = "RRULE:" THEN value
    ELSE [value EXCEPT !.pre = "RRULE:"]

\* the callback of applyRecurrenceRuleToEntries for one entry
RecurrenceEntry(x, file, fm, normalized) ==
    StepDone(setRecurrenceFields(x, file, normalized), fm,
             FmAfterSetRecurrence(fm, normalized))

\* the callback handed to applyToEntries, by the row it belongs to
EntryCallback(zone, x, file, fm, cb) ==
    CASE cb.row = "status"    -> StatusEntry(zone, x, file, fm, cb.value)
      [] cb.row = "recurrence" -> RecurrenceEntry(x, file, fm, cb.rule)
      [] cb.row = "scheduled" -> ScheduledEntry(x, file, fm, cb.time)
      [] cb.row = "end"       -> EndEntry(x, file, fm, cb.minutes, cb.time)

\* applyToEntries: the entries one after the other; an exception ends the
\* loop, the later entries are not visited
RECURSIVE applyToEntries(_, _, _, _, _)
applyToEntries(zone, x, entries, i, cb) ==
    IF i > Len(entries) THEN x
    ELSE IF x.thrown
    THEN applyToEntries(zone, [x EXCEPT !.fms = Append(@, entries[i].fm)],
                        entries, i + 1, cb)
    ELSE applyToEntries(zone, EntryCallback(zone, x, entries[i].file, entries[i].fm, cb),
                        entries, i + 1, cb)

\* the entries of a panel with the snapshots as the run left them
EntriesAfter(entries, x) ==
    [i \in 1..Len(entries) |-> [file |-> entries[i].file, fm |-> x.fms[i]]]

(***************************************************************************)
(* The vault at start: Task.md, Report 2024-01-01.md and, in some starts,  *)
(* a note already at the place the successor of Task.md would take.        *)
(***************************************************************************)
\* the specifications of the notes leave the workspace out
NoUI == [views |-> <<>>]

TaskFile   == [base |-> <<W(1)>>, ext |-> ".md"]
ReportFile == [base |-> <<W(2), SP, DT(DaysFromCivil(2024, 1, 1))>>, ext |-> ".md"]
TakenFile  == [base |-> <<W(1), SP, DT(DaysFromCivil(2024, 1, 2))>>, ext |-> ".md"]

\* 2024-01-01T09:00 on the wall clock of the zone
Anchor0(zone) == UTCOfLocal(zone, DaysFromCivil(2024, 1, 1) * MinutesPerDay + 9 * 60)

DailyText == RuleText("RRULE:", <<Part("FREQ", TextVal("DAILY"))>>)

MakeFm(status, rule, legacy, scheduled, estimate, title) ==
    LET fm == [status |-> status, recurrenceRule |-> rule, recurrence |-> legacy,
               scheduled |-> scheduled, timeEstimate |-> estimate,
               sheduledEnd |-> NoTime, title |-> title]
    IN  [fm EXCEPT !.sheduledEnd = computeEndISO(fm)]

PanelIds == {"menu", "view"}

NoPanel == [built |-> FALSE, entries |-> <<>>, select |-> ""]

\* the frontmatter of Task.md at start: status, recurrenceRule, recurrence,
\* scheduled, timeEstimate, and whether the successor's place is taken
Starts(zone) ==
    LET a0 == TimeAt(Anchor0(zone))
    IN  { <<"", DailyText, NoRule, a0, Minutes(30), FALSE>>,
          <<"", DailyText, NoRule, a0, Minutes(30), TRUE>>,
          <<"", NoRule, DailyText, a0, NoEstimate, FALSE>>,
          <<"", NoRule, NoRule, a0, Minutes(30), FALSE>>,
          <<"", BlankRule, NoRule, a0, NoEstimate, FALSE>>,
          <<"", DailyText, NoRule, NoTime, NoEstimate, FALSE>>,
          <<"", DailyText, NoRule, BadTime, NoEstimate, FALSE>>,
          <<"complete", DailyText, NoRule, a0, Minutes(30), FALSE>> }

\* the zone of the machine and the notes of the vault
InitVault ==
    /\ tz \in Zones
    /\ \E c \in Starts(tz) :
        LET task   == MakeFm(c[1], c[2], c[3], c[4], c[5], <<W(9)>>)
            report == MakeFm("open", DailyText, NoRule, TimeAt(Anchor0(tz)),
                             Minutes(30), <<>>)
            other  == MakeFm("open", NoRule, NoRule, NoTime, NoEstimate, <<>>)
        IN  store = [n \in {TaskFile, ReportFile} \cup (IF c[6] THEN {TakenFile} ELSE {}) |->
                        IF n = TaskFile THEN task
                        ELSE IF n = ReportFile THEN report ELSE other]

Init ==
    /\ InitVault
    /\ panels = [p \in PanelIds |-> NoPanel]
    /\ last = [op |-> "none", n |-> 0, faults |-> 0]
    /\ calc = CalcIdle
    /\ runs = <<>>
    /\ ui = NoUI

\* A behaviour has at most MaxOps user operations.  The store raises in at
\* most MaxFaults of them, each among the first MaxFaultOps operations; the
\* behaviour ends with the run that uses up the last of the faults.
MaxOps == 4
MaxFaults == 1
MaxFaultOps == 2

CanAct == last.n < MaxOps /\ last.faults < MaxFaults

\* the store call that raises in a run: none (0), or the failAt-th; the
\* callbacks make at most 8 store calls for an entry
FailPoints == IF last.n < MaxFaultOps THEN 0..16 ELSE {0}

Faults(x) == IF x.thrown THEN last.faults + 1 ELSE last.faults

\* getFrontmatter: a copy of the cached frontmatter
getFrontmatter(file) == store[file]

\* createFileEntries
createFileEntries(files) ==
    [i \in 1..Len(files) |-> [file |-> files[i], fm |-> getFrontmatter(files[i])]]

\* the value the status select shows when the panel is built
InitialSelect(entries) ==
    IF entries[1].fm.status = "" THEN STATUSES[1] ELSE entries[1].fm.status

\* buildSpecialPanel: the entries and the status select
BuiltPanel(files) ==
    LET entries == createFileEntries(files)
    IN  [built |-> TRUE, entries |-> entries, select |-> InitialSelect(entries)]

\* showForFiles: the floating menu for one file or for a selection
ShowForFiles(files) ==
    /\ CanAct
    /\ panels' = [panels EXCEPT !["menu"] = BuiltPanel(files)]
    /\ last' = [op |-> "build", n |-> last.n + 1, faults |-> last.faults]
    /\ UNCHANGED <<tz, store, calc, runs, ui>>

\* createPersistentMenu: the panel of an open view, for the file of the view
CreatePersistentMenu(file) ==
    /\ CanAct
    /\ panels' = [panels EXCEPT !["view"] = BuiltPanel(<<file>>)]
    /\ last' = [op |-> "build", n |-> last.n + 1, faults |-> last.faults]
    /\ UNCHANGED <<tz, store, calc, runs, ui>>

\* the change listener of the status select of panel p: the user picks
\* another value; the failAt-th store call of the run raises (0: none does)
StatusChange(p, value, failAt) ==
    /\ CanAct
    /\ panels[p].built
    /\ value # panels[p].select
    /\ \E x \in {applyToEntries(tz, StartRun(store, failAt), panels[p].entries, 1,
                               [row |-> "status", value |-> value])} :
           /\ (failAt # 0 => x.thrown)
           /\ store' = x.store
           /\ panels' = [panels EXCEPT ![p].entries = EntriesAfter(panels[p].entries, x),
                                       ![p].select = value]
           /\ last' = [op |-> "status", n |-> last.n + 1, faults |-> Faults(x), panel |-> p,
                       value |-> value, pre |-> store, raised |-> x.thrown,
                       entries |-> panels[p].entries, log |-> x.log]
    /\ UNCHANGED <<tz, calc, runs, ui>>

\* formatDateForInput: what the scheduled input shows, NoTime for ''
ShownScheduled(fm) == IF fm.scheduled.kind = "time" THEN fm.scheduled ELSE NoTime

\* the change listener of the scheduled input of panel p: value is the
\* normalized input, NoTime for a cleared one
ScheduledChange(p, value, failAt) ==
    /\ CanAct
    /\ panels[p].built
    /\ value # ShownScheduled(panels[p].entries[1].fm)
    /\ \E x \in {applyToEntries(tz, StartRun(store, failAt), panels[p].entries, 1,
                               [row |-> "scheduled", time |-> value])} :
           /\ (failAt # 0 => x.thrown)
           /\ store' = x.store
           /\ panels' = [panels EXCEPT ![p].entries = EntriesAfter(panels[p].entries, x)]
           /\ last' = [op |-> "scheduled", n |-> last.n + 1, faults |-> Faults(x), panel |-> p,
                       time |-> value, pre |-> store, raised |-> x.thrown,
                       entries |-> panels[p].entries]
    /\ UNCHANGED <<tz, calc, runs, ui>>

\* the change listener of the end input of panel p: the user enters the
\* end time newEnd
EndChange(p, newEnd, failAt) ==
    /\ CanAct
    /\ panels[p].built
    /\ LET firstFm == panels[p].entries[1].fm
       IN  /\ firstFm.scheduled.kind = "time"
           /\ LET diff    == newEnd - firstFm.scheduled.t
                  minutes == IF diff > 0 THEN diff ELSE 0
              IN  \E x \in {applyToEntries(tz, StartRun(store, failAt), panels[p].entries,
                                            1, [row |-> "end", minutes |-> minutes,
                                                time |-> TimeAt(newEnd)])} :
                  LET after == EntriesAfter(panels[p].entries, x) IN
                  /\ (failAt # 0 => x.thrown)
                  /\ store' = x.store
                  /\ panels' = [panels EXCEPT ![p].entries =
                        IF x.thrown THEN after
                        ELSE [after EXCEPT ![1].fm.timeEstimate = Minutes(minutes),
                                           ![1].fm.sheduledEnd = TimeAt(newEnd)]]
                  /\ last' = [op |-> "end", n |-> last.n + 1, faults |-> Faults(x), panel |-> p,
                              time |-> TimeAt(newEnd), pre |-> store,
                              raised |-> x.thrown, entries |-> panels[p].entries]
    /\ UNCHANGED <<tz, calc, runs, ui>>

\* applyRecurrenceRuleToEntries from the recurrence modal of panel p (a quick
\* option, the Set button or Enter): value is the text chosen or entered;
\* the floating menu is closed afterwards, a persistent panel stays
SetRecurrenceRule(p, value, failAt) ==
    /\ CanAct
    /\ panels[p].built
    /\ \E x \in {applyToEntries(tz, StartRun(store, failAt), panels[p].entries, 1,
                               [row |-> "recurrence", rule |-> normalizeRecurrence(value)])} :
           /\ (failAt # 0 => x.thrown)
           /\ store' = x.store
           /\ panels' = [panels EXCEPT ![p] =
                 IF p = "menu" /\ ~x.thrown THEN NoPanel
                 ELSE [@ EXCEPT !.entries = EntriesAfter(panels[p].entries, x)]]
           /\ last' = [op |-> "recurrence", n |-> last.n + 1, faults |-> Faults(x),
                       panel |-> p, value |-> value, pre |-> store,
                       raised |-> x.thrown, entries |-> panels[p].entries]
    /\ UNCHANGED <<tz, calc, runs, ui>>

\* what the user chooses or enters in the recurrence modal: white space, a
\* rule without the prefix, a rule with the prefix in lower case
RecurrenceInputs ==
    { BlankRule,
      RuleText("", <<Part("FREQ", TextVal("WEEKLY"))>>),
      RuleText("rrule:", <<Part("freq", TextVal("daily"))>>) }

\* what the user enters as scheduled time: nothing, or the day after the
\* first anchor
ScheduledInputs == {NoTime, TimeAt(AddLocalDay(tz, Anchor0(tz)))}

\* what the user enters as end time, against the scheduled time s the
\* panel shows: an hour after it, or half an hour before it
EndInputs(s) == {s + 60, s - 30}

EndInputsOf(p) ==
    IF panels[p].built /\ panels[p].entries[1].fm.scheduled.kind = "time"
    THEN EndInputs(panels[p].entries[1].fm.scheduled.t) ELSE {}

\* what the user selects: one note, or the report and the task together
Selections == { <<f>> : f \in DOMAIN store } \cup { <<ReportFile, TaskFile>> }

\* the notes open in a view
ViewFiles == {TaskFile}

StatusInputs == {STATUSES[i] : i \in 1..Len(STATUSES)}

Next ==
    \/ \E files \in Selections : ShowForFiles(files)
    \/ \E file \in ViewFiles : CreatePersistentMenu(file)
    \/ \E p \in PanelIds, value \in StatusInputs, failAt \in FailPoints :
          StatusChange(p, value, failAt)
    \/ \E p \in PanelIds, value \in ScheduledInputs, failAt \in FailPoints :
          ScheduledChange(p, value, failAt)
    \/ \E p \in PanelIds, failAt \in FailPoints :
          \E newEnd \in EndInputsOf(p) : EndChange(p, newEnd, failAt)
    \/ \E p \in PanelIds, value \in RecurrenceInputs, failAt \in FailPoints :
          SetRecurrenceRule(p, value, failAt)

Spec == Init /\ [][Next]_vars

\* The plugin loaded with Task.md open in a view: onload ends with a call of
\* ensureMenus, which builds the persistent panel of that view.
InitViewOpen ==
    /\ InitVault
    /\ panels = [p \in PanelIds |->
                    IF p = "view" THEN BuiltPanel(<<TaskFile>>) ELSE NoPanel]
    /\ last = [op |-> "none", n |-> 0, faults |-> 0]
    /\ calc = CalcIdle
    /\ runs = <<>>
    /\ ui = NoUI

SpecViewOpen == InitViewOpen /\ [][Next]_vars

(***************************************************************************)
(* The status handler step by step.  The callback of the status row is an  *)
(* async function: it runs up to its next await, and the store call it     *)
(* awaits is made later, after which it runs on to the following await.    *)
(* Between two steps of a handler other events are handled.  A run is a    *)
(* handler in flight: its panel, the value picked, the entry it is at (i), *)
(* the oldStatus it read, the call it awaits (pc) and, from vault.copy on, *)
(* the new name, the next date and the number of the write it awaits (w).  *)
(* The files of its entries are kept in files.                             *)
(***************************************************************************)
MaxRuns == 2

Active(r) == r.pc \notin {"done", "raised"}

\* whether no handler of panel p is in flight
NoRunOn(p) == \A k \in 1..Len(runs) : runs[k].panel = p => ~Active(runs[k])

\* the callback up to its first await, for entry i: oldStatus is read and
\* updateFrontmatterValue(file, 'status', value) is called
AtEntry(r, i, fm) ==
    [r EXCEPT !.i = i, !.pc = "status",
              !.oldStatus = IF fm.status = "" THEN "open" ELSE fm.status]

\* applyToEntries after the callback returned for entry r.i: the next entry,
\* or the end of the handler
NextEntry(r, entries) ==
    IF r.i < Len(entries) THEN AtEntry(r, r.i + 1, entries[r.i + 1].fm)
    ELSE [r EXCEPT !.pc = "done"]

\* the change listener of the status select of panel p up to the first await
BeginStatusChange(p, value) ==
    /\ CanAct
    /\ panels[p].built
    /\ value # panels[p].select
    /\ Len(runs) < MaxRuns
    /\ runs' = Append(runs,
                 AtEntry([panel |-> p, value |-> value,
                          files |-> {panels[p].entries[i].file :
                                        i \in 1..Len(panels[p].entries)},
                          i |-> 1, pc |-> "status", oldStatus |-> "",
                          newName |-> panels[p].entries[1].file, next |-> NoTime, w |-> 0],
                         1, panels[p].entries[1].fm))
    /\ panels' = [panels EXCEPT ![p].select = value]
    /\ last' = [op |-> "begin", n |-> last.n + 1, faults |-> last.faults]
    /\ UNCHANGED <<tz, store, calc, ui>>

\* handleRecurrenceCompletion from the result of computeNextOccurrence to the
\* call of vault.copy: the collision check is made on the store as it is now
AwaitCopy(st, r, file, entries, nextDate) ==
    IF ~nextDate.found THEN NextEntry(r, entries)
    ELSE IF generateNextName(file, nextDate.t) \in DOMAIN st THEN NextEntry(r, entries)
    ELSE [r EXCEPT !.pc = "copy", !.newName = generateNextName(file, nextDate.t),
                   !.next = TimeAt(nextDate.t)]

\* handleRecurrenceCompletion up to its first await, on the store st: the
\* run awaits vault.copy, or the callback has returned
AfterStatusWrite(zone, st, r, file, fm, entries) ==
    IF ~(r.value \in {"complete", "wont-do"} /\ r.oldStatus # r.value)
    THEN NextEntry(r, entries)
    ELSE IF getRecurrenceValue(fm).kind \in {"absent", "empty"} \/ fm.scheduled.kind = "absent"
    THEN NextEntry(r, entries)
    ELSE AwaitCopy(st, r, file, entries,
                   computeNextOccurrence(zone, getRecurrenceValue(fm), fm.scheduled))

\* the name and the step counter of the six writes to the new file
SuccessorKeys == <<"recurrenceRule", "recurrence", "status", "scheduled", "sheduledEnd", "title">>

\* the value of the w-th write to the new file
SuccessorValue(r, fm, w) ==
    CASE w = 1 -> NoRule
      [] w = 2 -> NoRule
      [] w = 3 -> "open"
      [] w = 4 -> r.next
      [] w = 5 -> computeEndISO([scheduled |-> r.next, timeEstimate |-> fm.timeEstimate])
      [] w = 6 -> r.newName.base

\* the awaited call of the run r and what follows it up to the next await:
\* the store, the run and the entry's snapshot afterwards.  vault.copy
\* rejects when the destination exists by now.
StepOf(zone, x, r, file, fm, entries) ==
    CASE r.pc = "status" ->
            LET st  == updateFrontmatterValue(x, file, "status", r.value).store
                fm1 == [fm EXCEPT !.status = r.value]
            IN  [store |-> st, fm |-> fm1,
                 run |-> IF r.value = "blocked" THEN [r EXCEPT !.pc = "clear"]
                         ELSE AfterStatusWrite(zone, st, r, file, fm1,
                                               [entries EXCEPT ![r.i].fm = fm1])]
      [] r.pc = "clear" ->
            [store |-> setRecurrenceFields(x, file, EmptyRule).store,
             fm    |-> FmAfterSetRecurrence(fm, EmptyRule),
             run   |-> NextEntry(r, entries)]
      [] r.pc = "copy" ->
            IF r.newName \in DOMAIN x.store
            THEN [store |-> x.store, fm |-> fm, run |-> [r EXCEPT !.pc = "raised"]]
            ELSE [store |-> VaultCopy(x, file, r.newName).store, fm |-> fm,
                  run |-> [r EXCEPT !.pc = "write", !.w = 1]]
      [] r.pc = "write" ->
            [store |-> updateFrontmatterValue(x, r.newName, SuccessorKeys[r.w],
                                              SuccessorValue(r, fm, r.w)).store,
             fm    |-> fm,
             run   |-> IF r.w < Len(SuccessorKeys) THEN [r EXCEPT !.w = r.w + 1]
                       ELSE NextEntry(r, entries)]

\* one step of the run k: the store call it awaits is made and the handler
\* runs on to its next await
StepRun(k) ==
    /\ k \in 1..Len(runs)
    /\ Active(runs[k])
    /\ LET r       == runs[k]
           entries == panels[r.panel].entries
           file    == entries[r.i].file
           fm      == entries[r.i].fm
           x       == StartRun(store, 0)
       IN  /\ \E out \in {StepOf(tz, x, r, file, fm, entries)} :
                 /\ store' = out.store
                 /\ runs' = [runs EXCEPT ![k] = out.run]
                 /\ panels' = [panels EXCEPT ![r.panel].entries[r.i].fm = out.fm]
           /\ last' = [op |-> "step", n |-> last.n, faults |-> last.faults,
                       run |-> k, file |-> file,
                       overlap |-> \E j \in 1..(k - 1) :
                                      Active(runs[j]) /\ file \in runs[j].files]
    /\ UNCHANGED <<tz, calc, ui>>

\* the values picked in the status select
StepInputs == {"complete", "blocked", "open"}

NextSteps ==
    \/ NoRunOn("menu") /\ \E files \in Selections : ShowForFiles(files)
    \/ NoRunOn("view") /\ \E file \in ViewFiles : CreatePersistentMenu(file)
    \/ \E p \in PanelIds, value \in StepInputs : BeginStatusChange(p, value)
    \/ \E k \in 1..MaxRuns : StepRun(k)

SpecSteps == Init /\ [][NextSteps]_vars

(***************************************************************************)
(* Tags.  A tag string is a sequence of tokens: words, blanks, '#' and     *)
(* '-'.  An entry of a stored tags list is a string or something else      *)
(* (a number, say).  The stored tags field is absent, a string, or a list. *)
(* In this specification a frontmatter record holds the tags field only,   *)
(* and the panel is the floating menu with its tags row.                   *)
(***************************************************************************)
HASH == [k |-> "hash", d |-> 0]
DASH == [k |-> "dash", d |-> 0]

Str(q)    == [str |-> TRUE, q |-> q]
NotAString == [str |-> FALSE, q |-> <<>>]

NoTags      == [kind |-> "absent", items |-> <<>>]
TagString(q) == [kind |-> "string", items |-> <<Str(q)>>]
TagList(es)  == [kind |-> "array", items |-> es]

\* tag.replace(/^[#\-\s]+/, ''): the string without its leading '#', '-' and
\* white space
RECURSIVE StripLead(_)
StripLead(q) ==
    IF q # <<>> /\ Head(q) \in {HASH, DASH, SP} THEN StripLead(Tail(q)) ELSE q

\* normalizeTag; <<>> is the empty string
normalizeTag(tag) ==
    IF ~tag.str \/ tag.q = <<>> THEN <<>>
    ELSE Trim(StripLead(tag.q))

\* es.map((t) => this.normalizeTag(t)).filter(Boolean), as a list of strings
RECURSIVE NormalizeAll(_)
NormalizeAll(es) ==
    IF es = <<>> THEN <<>>
    ELSE IF normalizeTag(Head(es)) = <<>> THEN NormalizeAll(Tail(es))
    ELSE <<Str(normalizeTag(Head(es)))>> \o NormalizeAll(Tail(es))

\* a list of strings without the string t
RECURSIVE Without(_, _)
Without(es, t) ==
    IF es = <<>> THEN <<>>
    ELSE IF Head(es) = Str(t) THEN Without(Tail(es), t)
    ELSE <<Head(es)>> \o Without(Tail(es), t)

\* '!fm.tags': the field is absent or the empty string
Falsy(tags) ==
    tags.kind = "absent" \/ (tags.kind = "string" /\ tags.items[1].q = <<>>)

\* extractTags: the normalized strings of a list, or of a string
extractTags(fm) ==
    IF fm.tags.kind = "array" THEN NormalizeAll(fm.tags.items)
    ELSE IF fm.tags.kind = "string" THEN NormalizeAll(fm.tags.items)
    ELSE <<>>

\* the processFrontMatter callback of addTagToFile, normalized being the
\* non-empty normalized tag
AddTagToFm(tags, normalized) ==
    LET list == IF Falsy(tags) THEN <<>> ELSE tags.items
        kept == NormalizeAll(list)
    IN  TagList(IF InSeq(Str(normalized), kept) THEN kept
                ELSE Append(kept, Str(normalized)))

\* addTagToFile on the store st
addTagToFile(st, file, tag) ==
    IF normalizeTag(Str(tag)) = <<>> THEN st
    ELSE [st EXCEPT ![file].tags = AddTagToFm(@, normalizeTag(Str(tag)))]

\* the processFrontMatter callback of removeTagFromFile
RemoveTagFromFm(tags, tag) ==
    IF Falsy(tags) THEN tags
    ELSE IF tags.kind = "array"
    THEN IF Without(NormalizeAll(tags.items), tag) = <<>> THEN NoTags
         ELSE TagList(Without(NormalizeAll(tags.items), tag))
    ELSE IF normalizeTag(tags.items[1]) = tag THEN NoTags
    ELSE tags

\* removeTagFromFile on the store st
removeTagFromFile(st, file, tag) ==
    [st EXCEPT ![file].tags = RemoveTagFromFm(@, tag)]

\* the files of the vault and what their tags fields hold at the start: no
\* field, a list of normalized tags, a list with two spellings of one tag,
\* a list with an entry that is no string, a string with a '#', an empty list
TagFiles == {TaskFile, ReportFile}

StoredTags ==
    { NoTags,
      TagList(<<Str(<<W(1)>>)>>),
      TagList(<<Str(<<W(1)>>), Str(<<W(2)>>)>>),
      TagList(<<Str(<<HASH, W(1)>>), Str(<<W(1)>>)>>),
      TagList(<<NotAString, Str(<<W(2)>>)>>),
      TagString(<<HASH, W(2)>>),
      TagList(<<>>) }

\* what is typed into the 'Add tag' input
TagInputs ==
    { <<W(1)>>, <<HASH, W(1)>>, <<SP, W(2), SP>>, <<DASH, SP, W(3)>>, <<HASH>>, <<SP>> }

MaxTagOps == 3

InitTags ==
    /\ tz = UTCZone
    /\ store \in [TagFiles -> {[tags |-> t] : t \in StoredTags}]
    /\ panels = [p \in PanelIds |-> NoPanel]
    /\ last = [op |-> "none", n |-> 0, faults |-> 0]
    /\ calc = CalcIdle
    /\ runs = <<>>
    /\ ui = NoUI

\* refreshTags: the first entry's copy takes its extracted tags, which are
\* the tags the row shows
RefreshTags(entries) ==
    [entries EXCEPT ![1].fm.tags = TagList(extractTags(entries[1].fm))]

\* showForFiles with the tags row of buildSpecialPanel: createTagsRow ends
\* with a first refreshTags
ShowTagsFor(files) ==
    /\ last.n < MaxTagOps
    /\ panels' = [panels EXCEPT !["menu"] =
                    [built |-> TRUE, select |-> "",
                     entries |-> RefreshTags(createFileEntries(files))]]
    /\ last' = [op |-> "build", n |-> last.n + 1, faults |-> last.faults]
    /\ UNCHANGED <<tz, store, calc, runs, ui>>

\* the callback of addTag for the entries from the i-th on: the store and
\* the entries' copies afterwards
RECURSIVE AddTagEntries(_, _, _, _)
AddTagEntries(st, entries, i, tagValue) ==
    IF i > Len(entries) THEN [store |-> st, entries |-> entries]
    ELSE LET result == normalizeTag(Str(tagValue))
             tags   == extractTags(entries[i].fm)
         IN  AddTagEntries(
                addTagToFile(st, entries[i].file, tagValue),
                IF result = <<>> THEN entries
                ELSE [entries EXCEPT ![i].fm.tags =
                        TagList(IF InSeq(Str(result), tags) THEN tags
                                ELSE Append(tags, Str(result)))],
                i + 1, tagValue)

\* addTag: the Add button, Enter in the input, or a click on a suggestion
AddTag(value) ==
    /\ last.n < MaxTagOps
    /\ panels["menu"].built
    /\ LET tagValue == Trim(value)
       IN  /\ tagValue # <<>>
           /\ \E out \in {AddTagEntries(store, panels["menu"].entries, 1, tagValue)} :
                 /\ store' = out.store
                 /\ panels' = [panels EXCEPT !["menu"].entries =
                                 IF normalizeTag(Str(tagValue)) # <<>>
                                 THEN RefreshTags(out.entries) ELSE out.entries]
           /\ last' = [op |-> "add", n |-> last.n + 1, faults |-> last.faults,
                       tag |-> normalizeTag(Str(tagValue)), before |-> store,
                       files |-> {panels["menu"].entries[i].file :
                                     i \in 1..Len(panels["menu"].entries)}]
    /\ UNCHANGED <<tz, calc, runs, ui>>

\* the callback of a remove button for the entries from the i-th on
RECURSIVE RemoveTagEntries(_, _, _, _)
RemoveTagEntries(st, entries, i, tag) ==
    IF i > Len(entries) THEN [store |-> st, entries |-> entries]
    ELSE RemoveTagEntries(
            removeTagFromFile(st, entries[i].file, tag),
            [entries EXCEPT ![i].fm.tags = TagList(Without(extractTags(entries[i].fm), tag))],
            i + 1, tag)

\* the tags the row shows, each with its remove button
ShownTags ==
    IF panels["menu"].built THEN panels["menu"].entries[1].fm.tags.items ELSE <<>>

\* the click listener of the remove button of the k-th tag shown
RemoveTag(k) ==
    /\ last.n < MaxTagOps
    /\ panels["menu"].built
    /\ k \in 1..Len(ShownTags)
    /\ LET tag == ShownTags[k].q
       IN  /\ \E out \in {RemoveTagEntries(store, panels["menu"].entries, 1, tag)} :
                 /\ store' = out.store
                 /\ panels' = [panels EXCEPT !["menu"].entries = RefreshTags(out.entries)]
           /\ last' = [op |-> "remove", n |-> last.n + 1, faults |-> last.faults,
                       tag |-> tag, before |-> store,
                       files |-> {panels["menu"].entries[i].file :
                                     i \in 1..Len(panels["menu"].entries)}]
    /\ UNCHANGED <<tz, calc, runs, ui>>

TagSelections == { <<f>> : f \in TagFiles } \cup { <<TaskFile, ReportFile>> }

NextTags ==
    \/ \E files \in TagSelections : ShowTagsFor(files)
    \/ \E value \in TagInputs : AddTag(value)
    \/ \E k \in 1..Len(ShownTags) : RemoveTag(k)

SpecTags == InitTags /\ [][NextTags]_vars

(***************************************************************************)
(* The persistent menus.  A markdown view of the workspace is open or not, *)
(* has a file or not, has a reading container or not, and has a source     *)
(* container in live preview or not.  The menus map of the                 *)
(* PersistentMenuManager takes a view to its instances: the reading and    *)
(* the live menu element, each "none" (null or undefined), "attached"      *)
(* (contained in the view's container) or "loose" (an element that is no   *)
(* longer in the container).                                               *)
(***************************************************************************)
ViewIds == <<"v1", "v2">>

ViewStates == [open : BOOLEAN, file : BOOLEAN, preview : BOOLEAN, live : BOOLEAN]

ClosedView == [open |-> FALSE, file |-> FALSE, preview |-> FALSE, live |-> FALSE]

NoInstances == [reading |-> "none", live |-> "none"]

\* this.menus.get(view) || {}
InstancesOf(menus, v) == IF v \in DOMAIN menus THEN menus[v] ELSE NoInstances

\* this.menus.delete(view)
MenusDelete(menus, v) == [k \in DOMAIN menus \ {v} |-> menus[k]]

\* this.menus.set(view, instances)
MenusSet(menus, v, instances) ==
    [k \in DOMAIN menus \cup {v} |-> IF k = v THEN instances ELSE menus[k]]

\* removeReadingMenu leaving the entry in the map when no live menu is left
removeReadingMenu_KeepsEntry(menus, v) ==
    IF InstancesOf(menus, v).reading = "none" THEN menus
    ELSE MenusSet(menus, v, [menus[v] EXCEPT !.reading = "none"])

\* removeReadingMenu
removeReadingMenu(menus, v) ==
    IF InstancesOf(menus, v).reading = "none" THEN menus
    ELSE IF menus[v].live = "none" THEN MenusDelete(menus, v)
    ELSE MenusSet(menus, v, [menus[v] EXCEPT !.reading = "none"])

\* removeLiveMenu
removeLiveMenu(menus, v) ==
    IF InstancesOf(menus, v).live = "none" THEN menus
    ELSE IF menus[v].reading = "none" THEN MenusDelete(menus, v)
    ELSE MenusSet(menus, v, [menus[v] EXCEPT !.live = "none"])

\* createPersistentMenu: an element, or null (FALSE) for a view without file
createPersistentMenu(view) == view.file

\* ensureReadingMenu; instances is the object read from the map before
\* removeReadingMenu, which sets its reading field to null
ensureReadingMenu(menus, view, v) ==
    IF ~view.preview THEN removeReadingMenu(menus, v)
    ELSE IF InstancesOf(menus, v).reading = "attached" THEN menus
    ELSE IF ~createPersistentMenu(view) THEN removeReadingMenu(menus, v)
    ELSE MenusSet(removeReadingMenu(menus, v), v,
                  [InstancesOf(menus, v) EXCEPT !.reading = "attached"])

\* ensureLiveMenu
ensureLiveMenu(menus, view, v) ==
    IF ~view.live THEN removeLiveMenu(menus, v)
    ELSE IF InstancesOf(menus, v).live = "attached" THEN menus
    ELSE IF ~createPersistentMenu(view) THEN removeLiveMenu(menus, v)
    ELSE MenusSet(removeLiveMenu(menus, v), v,
                  [InstancesOf(menus, v) EXCEPT !.live = "attached"])

\* cleanup
cleanup(menus, v) == MenusDelete(menus, v)

\* cleanup for each of the keys
RECURSIVE CleanupAll(_, _)
CleanupAll(menus, keys) ==
    IF keys = {} THEN menus
    ELSE LET v == CHOOSE k \in keys : TRUE
         IN  CleanupAll(cleanup(menus, v), keys \ {v})

\* the forEach of ensureMenus over the leaves from the i-th on
RECURSIVE EnsureLeaves(_, _, _)
EnsureLeaves(menus, views, i) ==
    IF i > Len(ViewIds) THEN menus
    ELSE LET v == ViewIds[i]
         IN  IF ~views[v].open \/ ~views[v].file THEN EnsureLeaves(menus, views, i + 1)
             ELSE EnsureLeaves(
                    ensureLiveMenu(ensureReadingMenu(menus, views[v], v), views[v], v),
                    views, i + 1)

\* ensureMenus: the leaves, then the cleanup of the views that are not active
ensureMenus(menus, views) ==
    LET ensured == EnsureLeaves(menus, views, 1)
    IN  CleanupAll(ensured, {k \in DOMAIN ensured : ~(views[k].open /\ views[k].file)})

ViewSet == {ViewIds[i] : i \in 1..Len(ViewIds)}

\* the plugin loaded: onload ends with a first ensureMenus on the views that
\* are open
InitMenus ==
    /\ tz = UTCZone
    /\ store = <<>>
    /\ panels = [p \in PanelIds |-> NoPanel]
    /\ calc = CalcIdle
    /\ runs = <<>>
    /\ last = [op |-> "ensure", n |-> 0, faults |-> 0]
    /\ \E views \in [ViewSet -> {ClosedView,
                                [open |-> TRUE, file |-> TRUE, preview |-> TRUE, live |-> FALSE]}] :
          ui = [views |-> views, loaded |-> TRUE, menus |-> ensureMenus(<<>>, views)]

\* an element that is in a container that is gone, or in the DOM of a view
\* that is closed, is no longer contained in the view's container
Loosened(instances, view) ==
    [reading |-> IF instances.reading = "attached" /\ ~view.preview THEN "loose"
                 ELSE instances.reading,
     live    |-> IF instances.live = "attached" /\ ~view.live THEN "loose"
                 ELSE instances.live]

\* the workspace changes the view v: it opens, closes, takes or loses its
\* file, or changes between reading, source and live preview
ChangeView(v, view) ==
    /\ view # ui.views[v]
    /\ view.open \/ view = ClosedView
    /\ ui' = [ui EXCEPT !.views[v] = view,
                        !.menus = [k \in DOMAIN ui.menus |->
                                      IF k = v THEN Loosened(ui.menus[k], view)
                                      ELSE ui.menus[k]]]
    /\ last' = [last EXCEPT !.op = "view"]
    /\ UNCHANGED <<tz, store, panels, calc, runs>>

\* the view renders its content anew and drops the menu element of a slot
Rerender(v, slot) ==
    /\ v \in DOMAIN ui.menus
    /\ ui.menus[v][slot] = "attached"
    /\ ui' = [ui EXCEPT !.menus[v][slot] = "loose"]
    /\ last' = [last EXCEPT !.op = "view"]
    /\ UNCHANGED <<tz, store, panels, calc, runs>>

\* a layout-change, active-leaf-change, file-open or modify event while the
\* plugin is loaded
EnsureMenus ==
    /\ ui.loaded
    /\ ui' = [ui EXCEPT !.menus = ensureMenus(ui.menus, ui.views)]
    /\ last' = [last EXCEPT !.op = "ensure"]
    /\ UNCHANGED <<tz, store, panels, calc, runs>>

\* detach, on unload; the event handlers are unregistered with it
Detach ==
    /\ ui.loaded
    /\ ui' = [ui EXCEPT !.menus = CleanupAll(ui.menus, DOMAIN ui.menus), !.loaded = FALSE]
    /\ last' = [last EXCEPT !.op = "detach"]
    /\ UNCHANGED <<tz, store, panels, calc, runs>>

NextMenus ==
    \/ \E v \in ViewSet, view \in ViewStates : ChangeView(v, view)
    \/ \E v \in ViewSet, slot \in {"reading", "live"} : Rerender(v, slot)
    \/ EnsureMenus
    \/ Detach

SpecMenus == InitMenus /\ [][NextMenus]_vars

(***************************************************************************)
(* The floating menu.  The fields of the MenuController (activeMenuEl,     *)
(* lastFiles with <<>> for null, lastContext, activeRecurrenceModal with   *)
(* the menu it was opened from, boundRecurrenceReposition), the plugin's   *)
(* ignoreNextContext, and what they refer to in the page: the floating     *)
(* menu elements in document.body (menuEls), the recurrence modal elements *)
(* inside the floating menu and inside the persistent menu (modalEls), the *)
(* outside-interaction listeners on document (outside), the reposition     *)
(* listeners on window (repositionListeners), the queue of the timer       *)
(* callbacks (timers) and the recurrence writes that are awaited           *)
(* (applies).  persistent tells whether a view shows a persistent menu.    *)
(***************************************************************************)
MaxNativeCalls == 2
MaxApplies == 1

InitialController ==
    [activeMenuEl |-> FALSE, menuEls |-> 0, outside |-> FALSE,
     lastFiles |-> <<>>, lastContext |-> "null",
     activeRecurrenceModal |-> "none", modalEls |-> [menu |-> 0, view |-> 0],
     boundRecurrenceReposition |-> FALSE, repositionListeners |-> 0,
     persistent |-> TRUE,
     ignoreNextContext |-> FALSE, timers |-> <<>>, applies |-> <<>>,
     calls |-> 0, swallowed |-> 0, native |-> <<>>]

\* closeRecurrenceModal
closeRecurrenceModal(u) ==
    LET u1 == IF u.activeRecurrenceModal # "none"
              THEN [u EXCEPT !.modalEls[u.activeRecurrenceModal] =
                                 IF @ > 0 THEN @ - 1 ELSE 0,
                             !.activeRecurrenceModal = "none"]
              ELSE u
    IN  IF u1.boundRecurrenceReposition
        THEN [u1 EXCEPT !.repositionListeners = @ - 1,
                        !.boundRecurrenceReposition = FALSE]
        ELSE u1

\* hideMenu leaving lastFiles as it is
hideMenu_KeepsFiles(u) ==
    LET u1 == closeRecurrenceModal(u)
        u2 == IF u1.activeMenuEl
              THEN [u1 EXCEPT !.menuEls = @ - 1, !.modalEls.menu = 0,
                              !.activeMenuEl = FALSE]
              ELSE u1
    IN  [u2 EXCEPT !.outside = FALSE, !.lastContext = "null"]

\* hideMenu; the elements inside a floating menu leave the page with it
hideMenu(u) ==
    LET u1 == closeRecurrenceModal(u)
        u2 == IF u1.activeMenuEl
              THEN [u1 EXCEPT !.menuEls = @ - 1, !.modalEls.menu = 0,
                              !.activeMenuEl = FALSE]
              ELSE u1
    IN  [u2 EXCEPT !.outside = FALSE, !.lastContext = "null", !.lastFiles = <<>>]

\* showForFiles
showForFiles(u, files) ==
    IF files = <<>> THEN hideMenu(u)
    ELSE LET u1 == closeRecurrenceModal([hideMenu(u) EXCEPT !.lastFiles = files])
         IN  [u1 EXCEPT !.menuEls = @ + 1, !.activeMenuEl = TRUE,
                        !.outside = TRUE, !.lastContext = "context"]

\* openRecurrenceModal from the recurrence row of the floating menu (root
\* "menu") or of the persistent menu (root "view")
openRecurrenceModal(u, root) ==
    LET u1 == closeRecurrenceModal(u)
    IN  [u1 EXCEPT !.modalEls[root] = @ + 1,
                   !.activeRecurrenceModal = root,
                   !.boundRecurrenceReposition = TRUE,
                   !.repositionListeners = @ + 1]

\* handleOutsideInteraction for a mousedown, touchstart or contextmenu event
\* whose target is inside the floating menu or not
handleOutsideInteraction(u, inside) ==
    IF ~u.activeMenuEl THEN u
    ELSE IF inside THEN u
    ELSE hideMenu(u)

\* openNativeOptions setting the flag without a timer to reset it
openNativeOptions_NoTimer(u) ==
    [hideMenu(u) EXCEPT !.ignoreNextContext = TRUE, !.calls = @ + 1]

\* openNativeOptions up to the first setTimeout
openNativeOptions(u) ==
    [hideMenu(u) EXCEPT
        !.ignoreNextContext = TRUE,
        !.timers = Append(@, [cb |-> "outer", firstFile |-> u.lastFiles]),
        !.calls = @ + 1]

InitController ==
    /\ tz = UTCZone
    /\ store = <<>>
    /\ panels = [p \in PanelIds |-> NoPanel]
    /\ calc = CalcIdle
    /\ runs = <<>>
    /\ last = [op |-> "none", n |-> 0, faults |-> 0]
    /\ ui = InitialController

\* handleContextMenuEvent and, unless it stopped the event, the outside
\* handler that was registered when the event was dispatched.  The target
\* is a link to notes ("link"), something inside the floating menu
\* ("inside") or anything else ("other").
ContextMenuEvent(target, files) ==
    /\ target = "inside" => ui.activeMenuEl
    /\ target = "link" <=> files # <<>>
    /\ LET swallowed == ui.ignoreNextContext
           shown     == ~swallowed /\ target = "link"
           u1 == IF swallowed THEN [ui EXCEPT !.ignoreNextContext = FALSE,
                                               !.swallowed = @ + 1]
                 ELSE IF shown THEN showForFiles(ui, files)
                 ELSE ui
       IN  /\ ui' = IF ~shown /\ ui.outside
                    THEN handleOutsideInteraction(u1, target = "inside")
                    ELSE u1
           /\ last' = [last EXCEPT !.op = "contextmenu"] @@
                        [swallowed |-> swallowed, pending |-> ui.timers # <<>>]
    /\ UNCHANGED <<tz, store, panels, calc, runs>>

\* a mousedown or touchstart outside the floating menu
PressOutside ==
    /\ ui.outside
    /\ ui' = handleOutsideInteraction(ui, FALSE)
    /\ last' = [op |-> "press", n |-> 0, faults |-> 0]
    /\ UNCHANGED <<tz, store, panels, calc, runs>>

\* the vault's delete event
VaultDelete ==
    /\ ui' = hideMenu(ui)
    /\ last' = [op |-> "delete", n |-> 0, faults |-> 0]
    /\ UNCHANGED <<tz, store, panels, calc, runs>>

\* a click on the recurrence button of the floating or of the persistent menu
ClickRecurrence(root) ==
    /\ root = "menu" => ui.activeMenuEl
    /\ root = "view" => ui.persistent
    /\ ui' = openRecurrenceModal(ui, root)
    /\ last' = [op |-> "open", n |-> 0, faults |-> 0]
    /\ UNCHANGED <<tz, store, panels, calc, runs>>

\* a click on Cancel in the recurrence modal
ClickCancel ==
    /\ ui.activeRecurrenceModal # "none"
    /\ ui.modalEls[ui.activeRecurrenceModal] > 0
    /\ ui' = closeRecurrenceModal(ui)
    /\ last' = [op |-> "cancel", n |-> 0, faults |-> 0]
    /\ UNCHANGED <<tz, store, panels, calc, runs>>

\* a click on Set or on a quick option, or Enter, in the recurrence modal:
\* applyRecurrenceRuleToEntries up to its await
ClickSet ==
    /\ ui.activeRecurrenceModal # "none"
    /\ ui.modalEls[ui.activeRecurrenceModal] > 0
    /\ Len(ui.applies) < MaxApplies
    /\ ui' = [ui EXCEPT !.applies = Append(@, ui.activeRecurrenceModal = "menu")]
    /\ last' = [op |-> "set", n |-> 0, faults |-> 0]
    /\ UNCHANGED <<tz, store, panels, calc, runs>>

\* the writes of applyRecurrenceRuleToEntries are done (or one of them
\* rejected): closeRecurrenceModal and, for the floating menu, hideMenu
AppliedRecurrence(rejected) ==
    /\ ui.applies # <<>>
    /\ LET u1 == [ui EXCEPT !.applies = Tail(@)]
       IN  ui' = IF rejected THEN u1
                 ELSE IF Head(ui.applies) THEN hideMenu(closeRecurrenceModal(u1))
                 ELSE closeRecurrenceModal(u1)
    /\ last' = [op |-> "applied", n |-> 0, faults |-> 0]
    /\ UNCHANGED <<tz, store, panels, calc, runs>>

\* a click on 'File options' in the floating menu
ClickFileOptions ==
    /\ ui.activeMenuEl
    /\ ui.calls < MaxNativeCalls
    /\ ui' = openNativeOptions(ui)
    /\ last' = [op |-> "native", n |-> 0, faults |-> 0]
    /\ UNCHANGED <<tz, store, panels, calc, runs>>

\* the next timer callback runs: the outer one shows the native menu of the
\* first file and sets the inner timer, the inner one resets the flag
TimerFires ==
    /\ ui.timers # <<>>
    /\ ui' = IF Head(ui.timers).cb = "outer"
             THEN [ui EXCEPT !.timers = Append(Tail(@), [cb |-> "inner", firstFile |-> <<>>]),
                             !.native = Head(ui.timers).firstFile]
             ELSE [ui EXCEPT !.timers = Tail(@), !.ignoreNextContext = FALSE]
    /\ last' = [op |-> "timer", n |-> 0, faults |-> 0]
    /\ UNCHANGED <<tz, store, panels, calc, runs>>

\* the view with the persistent menu closes, or one opens
TogglePersistent ==
    /\ ui' = [ui EXCEPT !.persistent = ~@, !.modalEls.view = 0]
    /\ last' = [op |-> "view", n |-> 0, faults |-> 0]
    /\ UNCHANGED <<tz, store, panels, calc, runs>>

MenuSelections == {<<TaskFile>>, <<ReportFile, TaskFile>>}

NextController ==
    \/ \E target \in {"link", "inside", "other"}, files \in MenuSelections \cup {<<>>} :
          ContextMenuEvent(target, files)
    \/ PressOutside
    \/ VaultDelete
    \/ \E root \in {"menu", "view"} : ClickRecurrence(root)
    \/ ClickCancel
    \/ ClickSet
    \/ \E rejected \in BOOLEAN : AppliedRecurrence(rejected)
    \/ ClickFileOptions
    \/ TimerFires
    \/ TogglePersistent

SpecController == InitController /\ [][NextController]_vars

\* the timer callbacks that are queued do run
SpecControllerFair == SpecController /\ WF_vars(TimerFires)

(***************************************************************************)
(* The occurrence calculator on its own: computeNextOccurrence is applied  *)
(* to rule texts and anchors drawn from bounded sets.                      *)
(***************************************************************************)
MaxSmallInterval == 4

CalcIntervals ==
    (1..MaxSmallInterval) \cup {7, 14, 30, maxIterations - 1, maxIterations, maxIterations + 1}

\* anchors: local wall-clock times on days before, at and after clock changes
AnchorDays ==
    { DaysFromCivil(2024, 1, 1), DaysFromCivil(2024, 1, 31),
      DaysFromCivil(2024, 2, 10), DaysFromCivil(2024, 3, 9),
      DaysFromCivil(2024, 6, 15), DaysFromCivil(2024, 11, 2) }

AnchorTimes == {30, 2 * 60 + 30, 9 * 60, 23 * 60 + 30}

AnchorsOf(zone) ==
    { UTCOfLocal(zone, d * MinutesPerDay + m) : d \in AnchorDays, m \in AnchorTimes }

DailyRule(k) == RuleText("RRULE:", <<Part("FREQ", TextVal("DAILY")), Part("INTERVAL", NumVal(k))>>)

FreqRule(freq, k) ==
    RuleText("RRULE:", <<Part("FREQ", TextVal(freq)), Part("INTERVAL", NumVal(k))>>)

WeeklyRule(k, days) ==
    RuleText("RRULE:", <<Part("FREQ", TextVal("WEEKLY")), Part("INTERVAL", NumVal(k)),
                         Part("BYDAY", ListVal(days))>>)

LargeIntervals == {maxIterations, maxIterations + 1}

CalcRules ==
    { DailyRule(k) : k \in CalcIntervals }
    \cup { RuleText("RRULE:", <<Part("FREQ", TextVal("DAILY"))>>),
           RuleText("", <<Part("freq", TextVal("daily")), Part("interval", NumVal(2))>>),
           RuleText("RRULE:", <<Part("FREQ", TextVal("WEEKLY")),
                                Part("BYDAY", ListVal(<<"XX", "mon">>))>>),
           RuleText("RRULE:", <<Part("FREQ", TextVal("WEEKLY")),
                                Part("BYDAY", ListVal(<<"MO", "WE", "FR">>))>>),
           RuleText("RRULE:", <<Part("FREQ", TextVal("WEEKLY"))>>),
           RuleText("RRULE:", <<Part("FREQ", TextVal("MONTHLY"))>>),
           RuleText("RRULE:", <<Part("FREQ", TextVal("YEARLY"))>>),
           RuleText("RRULE:", <<Part("INTERVAL", NumVal(2))>>),
           RuleText("RRULE:", <<>>),
           EmptyRule }
    \cup { FreqRule("MONTHLY", k) : k \in {2} \cup LargeIntervals }
    \cup { FreqRule("WEEKLY", k) : k \in {2, 3} }
    \cup { FreqRule("DAILY", k) : k \in {0, -1} }
    \cup { RuleText("RRULE:", <<Part("FREQ", TextVal("DAILY")), Part("INTERVAL", v)>>) :
               v \in {TextVal("abc"), HalfVal(3)} }
    \cup { RuleText("RRULE:", <<Part("FREQ", TextVal("DAILY")), Part("INTERVAL", NumVal(2)),
                                Part("INTERVAL", v)>>) :
               v \in {NumVal(0), TextVal("abc"), NumVal(3)} }
    \cup { FreqRule("YEARLY", 2), FreqRule("yearly", 3),
           WeeklyRule(1, <<"SU">>), WeeklyRule(2, <<"SA">>), WeeklyRule(2, <<"MO", "TH">>),
           RuleText("", <<Part("INTERVAL", NumVal(3)), Part("BYDAY", ListVal(<<"mo">>))>>),
           RuleText("RRULE:", <<Part("FREQ", NoVal), Part("INTERVAL", NumVal(2))>>),
           BlankRule }

InitCalc ==
    /\ tz \in Zones
    /\ store = <<>>
    /\ panels = [p \in PanelIds |-> NoPanel]
    /\ last = [op |-> "none", n |-> 0, faults |-> 0]
    /\ calc = CalcIdle
    /\ runs = <<>>
    /\ ui = NoUI

\* one call of computeNextOccurrence(rrule, scheduled) per behaviour
CallComputeNext(rrule, scheduled) ==
    /\ calc.pc = "idle"
    /\ calc' = [pc |-> "done", rule |-> rrule, scheduled |-> scheduled,
                res |-> computeNextOccurrence(tz, rrule, scheduled)]
    /\ UNCHANGED <<tz, store, panels, last, runs, ui>>

\* the file names handed to generateNextName: with a trailing date stamp
\* after one blank, after two, after none, the date stamp alone, two date
\* stamps, a leading date stamp, no date stamp; with and without extension
NameBases ==
    LET d0 == DT(DaysFromCivil(2024, 1, 1))
        d9 == DT(DaysFromCivil(2023, 12, 25))
    IN  { <<W(2), SP, d0>>, <<W(2), SP, SP, d0>>, <<W(2), d0>>, <<d0>>,
          <<W(2), SP, d9, SP, d0>>, <<d0, SP, W(2)>>, <<W(2)>> }

FileNames == { [base |-> b, ext |-> x] : b \in NameBases, x \in {".md", ""} }

\* the dates of the next occurrence: 09:00Z on 2024-01-01, -02 and -15
NameDates == { DaysFromCivil(2024, 1, d) * MinutesPerDay + 9 * 60 : d \in {1, 2, 15} }

\* generateNextName(name, d1), generateNextName of that result and d2, and
\* generateNextName(name, d2)
CallGenerateNextName(name, d1, d2) ==
    /\ calc.pc = "idle"
    /\ calc' = [pc |-> "named", rule |-> NoRule, scheduled |-> NoTime, res |-> NoDate,
                name |-> name, d1 |-> d1, d2 |-> d2,
                once   |-> generateNextName(name, d1),
                twice  |-> generateNextName(generateNextName(name, d1), d2),
                direct |-> generateNextName(name, d2)]
    /\ UNCHANGED <<tz, store, panels, last, runs, ui>>

NextCalc ==
    \/ \E rrule \in CalcRules :
          \E scheduled \in {TimeAt(a) : a \in AnchorsOf(tz)} \cup {BadTime} :
              CallComputeNext(rrule, scheduled)
    \/ \E name \in FileNames, d1 \in NameDates, d2 \in NameDates :
          CallGenerateNextName(name, d1, d2)

SpecCalc == InitCalc /\ [][NextCalc]_vars

(***************************************************************************)
(* Properties of the status lifecycle                                      *)
(***************************************************************************)
\* the status a record had before a change, an absent one counting as open
PriorOf(e) == IF e.priorStored = "" THEN "open" ELSE e.priorStored

LogEntries == IF last.op = "status" THEN {last.log[i] : i \in 1..Len(last.log)} ELSE {}

\* C1: for every status change committed through a status control, the
\* successor workflow is invoked if and only if the new status is complete
\* or wont-do and the status the record had before (absent counts as open)
\* differs from the new status.
C1_InvokedIffTransition ==
    \A e \in LogEntries :
        e.written =>
            (e.invoked <=> (/\ last.value \in {"complete", "wont-do"}
                            /\ PriorOf(e) # last.value))

\* C2: after a status change to blocked has run to completion, the record of
\* each artifact it was applied to has status blocked and holds neither
\* recurrenceRule nor the legacy field recurrence, whatever it held before.
C2_BlockedClearsRecurrence ==
    (last.op = "status" /\ last.value = "blocked" /\ ~last.raised) =>
        \A i \in 1..Len(last.entries) :
            LET r == store[last.entries[i].file]
            IN  /\ r.status = "blocked"
                /\ r.recurrenceRule = NoRule
                /\ r.recurrence = NoRule

\* C2 witness: a completed change to blocked on a record that held a rule in
\* the legacy field recurrence
C2_Witness ==
    /\ last.op = "status" /\ last.value = "blocked" /\ ~last.raised
    /\ \E i \in 1..Len(last.entries) :
          last.pre[last.entries[i].file].recurrence # NoRule

\* C3: when the successor workflow computes a destination at which an
\* artifact already exists, it creates nothing, copies nothing and writes no
\* field of any record: the store is as it was when the workflow started.
C3_CollisionGuard ==
    \A e \in LogEntries :
        (/\ e.invoked
         /\ e.wf.outcome \in {"collision", "created", "raised"}
         /\ e.wf.dest \in DOMAIN e.atWorkflow)
        => e.afterEntry = e.atWorkflow

\* C3 witness: a workflow whose destination was taken
C3_Witness ==
    \E e \in LogEntries :
        /\ e.invoked
        /\ e.wf.outcome = "collision"
        /\ e.wf.dest \in DOMAIN e.atWorkflow

\* whether a timeEstimate is a positive number of minutes
IsPositive(estimate) == estimate.kind = "num" /\ estimate.v > 0

\* C4: a successor created by a workflow that ran to completion has no
\* recurrenceRule and no recurrence, status open, scheduled at the computed
\* next occurrence, the end field at next + the source's timeEstimate when
\* that is positive and absent otherwise, and its own base name as title.
C4_SuccessorRecord ==
    \A e \in LogEntries :
        e.wf.outcome = "created" =>
            LET r   == e.afterEntry[e.wf.dest]
                src == e.atWorkflow[e.file]
            IN  /\ r.recurrenceRule = NoRule
                /\ r.recurrence = NoRule
                /\ r.status = "open"
                /\ r.scheduled = e.wf.next
                /\ r.sheduledEnd = (IF IsPositive(src.timeEstimate)
                                    THEN TimeAt(e.wf.next.t + src.timeEstimate.v)
                                    ELSE NoTime)
                /\ r.title = e.wf.dest.base

\* C5: the status change always commits: the new status is written to the
\* record of every artifact of the selection, even if the store raises during
\* the successor creation for that artifact or for an earlier one.
C5_StatusAlwaysCommits ==
    (/\ last.op = "status"
     /\ (last.raised => \E e \in LogEntries : e.wf.outcome = "raised"))
    => \A i \in 1..Len(last.entries) :
          store[last.entries[i].file].status = last.value

\* C6: an error raised while copying the source or writing the successor's
\* metadata is caught inside the successor workflow: no exception escapes
\* handleRecurrenceCompletion to its caller.
C6_NoExceptionEscapes ==
    \A e \in LogEntries : e.invoked => ~e.raised

\* a record without the prerequisites of a successor: no rule (or a blank
\* one) in both fields, or no scheduled value or an unparseable one
MissingPrerequisite(r) ==
    \/ /\ r.recurrenceRule.kind \in {"absent", "empty", "blank"}
       /\ r.recurrence.kind \in {"absent", "empty", "blank"}
    \/ r.scheduled.kind \in {"absent", "bad"}

\* C7: if at a qualifying transition the record has no rule, or no usable
\* scheduled value, the workflow creates no artifact and writes no field.
C7_MissingPrerequisiteNoop ==
    \A e \in LogEntries :
        (e.invoked /\ MissingPrerequisite(e.atWorkflow[e.file]))
        => e.afterEntry = e.atWorkflow

\* C8: the successor workflow never writes to the record of the source:
\* after the workflow every field of it is as the triggering status write
\* left it, whether or not a successor was created.
C8_SourceUntouched ==
    \A e \in LogEntries :
        e.invoked => e.afterEntry[e.file] = e.atWorkflow[e.file]

\* C8 witness: a workflow that created a successor
C8_Witness ==
    \E e \in LogEntries :
        /\ e.invoked
        /\ e.wf.outcome = "created"
        /\ e.wf.dest \in DOMAIN store

\* whether a stored rule is in canonical form: text after the literal
\* prefix RRULE:
Canonical(rule) == rule.kind = "text" /\ rule.pre = "RRULE:"

\* C14: after a call that sets the recurrence rule (quick option, free text,
\* clear) has run to completion, the recurrenceRule of every artifact it was
\* applied to is absent or starts with the literal prefix RRULE:, it is
\* absent for empty or white-space input, and recurrence is absent.
C14_CanonicalRule ==
    (last.op = "recurrence" /\ ~last.raised) =>
        \A i \in 1..Len(last.entries) :
            LET r == store[last.entries[i].file]
            IN  /\ r.recurrenceRule = NoRule \/ Canonical(r.recurrenceRule)
                /\ last.value.kind \in {"absent", "empty", "blank"}
                      => r.recurrenceRule = NoRule
                /\ r.recurrence = NoRule

\* C15: in every reachable state of the store, under any sequence of
\* scheduled edits, end edits and successor creations from one or several
\* panels on the same artifact, no record holds sheduledEnd without holding
\* a scheduled value.
C15_EndNeedsScheduled ==
    \A f \in DOMAIN store :
        store[f].sheduledEnd # NoTime => store[f].scheduled # NoTime

\* whether the end field of a record is what its scheduled and timeEstimate
\* derive: present only with a scheduled time and a positive timeEstimate,
\* and then scheduled + timeEstimate minutes
EndDerived(r) ==
    r.sheduledEnd # NoTime =>
        /\ r.scheduled.kind = "time"
        /\ IsPositive(r.timeEstimate)
        /\ r.sheduledEnd = TimeAt(r.scheduled.t + r.timeEstimate.v)

\* the successors the last run created
Created == {e.wf.dest : e \in {l \in LogEntries : l.wf.outcome = "created"}}

\* C16: when a scheduled edit, an end edit or a successor creation has run
\* to completion, the end field of every record it affected (every file of
\* the selection, every successor) is derived from that record's scheduled
\* and timeEstimate, also when the entered end is at or before scheduled.
C16_EndIsDerived ==
    (last.op \in {"scheduled", "end", "status"} /\ ~last.raised) =>
        /\ last.op \in {"scheduled", "end"} =>
              \A i \in 1..Len(last.entries) : EndDerived(store[last.entries[i].file])
        /\ \A f \in Created : EndDerived(store[f])

\* C17: each lifecycle decision uses the record as stored at the moment of
\* the status change: the prior status, the recurrence rule, the scheduled
\* anchor and the timeEstimate the callback consults are the stored ones.
C17_DecisionOnStoredRecord ==
    last.op = "status" =>
        \A i \in 1..Len(last.entries) :
            LET fm == last.entries[i].fm
                r  == last.pre[last.entries[i].file]
            IN  /\ fm.status = r.status
                /\ getRecurrenceValue(fm) = getRecurrenceValue(r)
                /\ fm.scheduled = r.scheduled
                /\ fm.timeEstimate = r.timeEstimate

\* C18: once a status handler for an artifact has started, no status
\* handler started after it for that artifact (from the same control or from
\* another panel) makes a store call until the first has finished.
C18_NoInterleaving ==
    last.op = "step" => ~last.overlap

\* the artifacts that the status change described by l created for the
\* source f, given the store before and after that change
SuccessorsOf(l, f, before, after) ==
    { l.log[i].wf.dest : i \in { k \in 1..Len(l.log) :
                                   /\ l.log[k].file = f
                                   /\ l.log[k].invoked
                                   /\ l.log[k].wf.dest \in DOMAIN after
                                   /\ l.log[k].wf.dest \notin DOMAIN before } }

\* a status change that creates a successor for a source right after another
\* status change created one for it, the stored rule and scheduled value of
\* the source being the same before, between and after the two
SecondSuccessor ==
    /\ last.op = "status"
    /\ last'.op = "status"
    /\ last'.n = last.n + 1
    /\ \E f \in DOMAIN last.pre :
          /\ getRecurrenceValue(last.pre[f]) = getRecurrenceValue(store[f])
          /\ getRecurrenceValue(store[f]) = getRecurrenceValue(store'[f])
          /\ last.pre[f].scheduled = store[f].scheduled
          /\ store[f].scheduled = store'[f].scheduled
          /\ SuccessorsOf(last, f, last.pre, store) # {}
          /\ SuccessorsOf(last', f, store, store') # {}

\* a status change that alters the record of an artifact that existed before
\* and is none of the artifacts the change was applied to
Overwrites ==
    /\ last'.op = "status"
    /\ last'.n = last.n + 1
    /\ \E g \in DOMAIN store :
          /\ \A i \in 1..Len(last'.entries) : last'.entries[i].file # g
          /\ store'[g] # store[g]

\* C26: across status changes on one source during which its name, rule and
\* scheduled value do not change and the first successor is not removed, at
\* most one successor is created (no status change creates a second one
\* after an earlier change created the first), and no status change
\* overwrites an artifact that exists.
C26_NoDuplicateSuccessor ==
    [][~SecondSuccessor /\ ~Overwrites]_vars

\* the notes the vault holds at the start; every other artifact is a
\* successor that a workflow created
StartFiles == {TaskFile, ReportFile, TakenFile}

\* C27: a successor is stored without recurrenceRule and recurrence, and a
\* status change of a successor whose record holds no rule creates no
\* further artifact.
C27_ChainStops ==
    /\ \A e \in LogEntries :
          (e.invoked /\ e.wf.dest \in DOMAIN store /\ e.wf.dest \notin DOMAIN last.pre)
          => /\ store[e.wf.dest].recurrenceRule = NoRule
             /\ store[e.wf.dest].recurrence = NoRule
    /\ \A e \in LogEntries :
          (/\ e.file \notin StartFiles
           /\ getRecurrenceValue(last.pre[e.file]).kind \in {"absent", "empty"})
          => SuccessorsOf(last, e.file, last.pre, store) = {}

(***************************************************************************)
(* Properties of the occurrence calculator                                 *)
(***************************************************************************)
\* the first n candidates the search steps through from the date c
RECURSIVE Stepped(_, _, _, _)
Stepped(zone, c, parsed, n) ==
    IF n = 0 THEN <<>>
    ELSE IF n = 1 THEN <<incrementRecurrence(zone, c, parsed)>>
    ELSE LET first == Stepped(zone, c, parsed, n \div 2)
         IN  IF Len(first) = 0 THEN first
             ELSE first \o Stepped(zone, first[Len(first)], parsed, n - (n \div 2))

\* whether the last call entered the search loop
Searched ==
    /\ calc.pc = "done"
    /\ calc.scheduled.kind = "time"
    /\ parseRecurrence(calc.rule).freq # ""

\* C9: the search ends after at most 500 step-and-test iterations, and it
\* returns none exactly when none of the first 500 stepped candidates
\* matches; otherwise it returns the first one that does.
C9_BoundedSearch ==
    /\ calc.res.iterations <= maxIterations
    /\ (calc.pc = "done" /\ ~Searched) => ~calc.res.found
    /\ Searched =>
        LET parsed == parseRecurrence(calc.rule)
            base   == calc.scheduled.t
            cs     == Stepped(tz, base, parsed, maxIterations)
            hits   == {i \in 1..maxIterations : matchesRecurrence(tz, cs[i], base, parsed)}
        IN  /\ calc.res.found <=> hits # {}
            /\ calc.res.found =>
                  /\ calc.res.iterations \in hits
                  /\ \A i \in hits : calc.res.iterations <= i
                  /\ calc.res.t = cs[calc.res.iterations]
            /\ ~calc.res.found => calc.res.iterations = maxIterations

\* C9 witness: a search that used up all 500 iterations and returned none,
\* for a daily rule with an interval above 500
C9_Witness ==
    /\ Searched
    /\ ~calc.res.found
    /\ calc.res.iterations = maxIterations
    /\ parseRecurrence(calc.rule).freq = "DAILY"
    /\ parseRecurrence(calc.rule).interval > maxIterations

\* C10: for a DAILY rule with interval k, 1 <= k <= 500, and a valid anchor
\* the result is the time exactly k calendar days after the anchor, at the
\* same time of day.
C10_DailyExactlyKDays ==
    (/\ Searched
     /\ parseRecurrence(calc.rule).freq = "DAILY"
     /\ parseRecurrence(calc.rule).den = 1
     /\ parseRecurrence(calc.rule).interval \in 1..maxIterations)
    => /\ calc.res.found
       /\ calc.res.t = UTCOfLocal(tz, LocalOf(tz, calc.scheduled.t)
                          + parseRecurrence(calc.rule).interval * MinutesPerDay)

\* the weekday codes getWeekdayCode can give
WeekdayCodes == {getWeekdayCode(day) : day \in 0..6}

\* the least member of a non-empty set of numbers
Least(ds) == CHOOSE d \in ds : \A e \in ds : d <= e

\* whether the last call searched with a WEEKLY rule whose BYDAY list is
\* non-empty and holds weekday codes only
WeeklyFiltered ==
    /\ Searched
    /\ parseRecurrence(calc.rule).freq = "WEEKLY"
    /\ parseRecurrence(calc.rule).byDay # <<>>
    /\ \A i \in 1..Len(parseRecurrence(calc.rule).byDay) :
          parseRecurrence(calc.rule).byDay[i] \in WeekdayCodes

\* the numbers d of calendar days after the anchor day, among the first 500,
\* with floor(d / 7) mod n = 0 and the weekday of that day in the list
WeeklyDays(zone, anchor, parsed) ==
    { d \in 1..maxIterations :
        /\ (d \div 7) % parsed.interval = 0
        /\ InSeq(getWeekdayCode((LocalDay(zone, anchor) + d + 4) % 7), parsed.byDay) }

\* C11: for a WEEKLY rule with a non-empty list of valid weekday codes and
\* interval n the result is on the earliest calendar day d after the anchor
\* day with floor(d / 7) mod n = 0 and the weekday of d in the list, and the
\* weekday of the result is in the list.
C11_WeeklyEarliestDay ==
    WeeklyFiltered =>
        LET parsed == parseRecurrence(calc.rule)
            ds     == WeeklyDays(tz, calc.scheduled.t, parsed)
        IN  ds # {} =>
              /\ calc.res.found
              /\ LocalDay(tz, calc.res.t) = LocalDay(tz, calc.scheduled.t) + Least(ds)
              /\ InSeq(getWeekdayCode(GetDay(tz, calc.res.t)), parsed.byDay)

\* the day number of the same day-of-month k calendar months after the civil
\* date c
MonthsLaterDay(c, k) ==
    DaysFromCivil(c.y + (c.m - 1 + k) \div 12, ((c.m - 1 + k) % 12) + 1, c.d)

\* the wall-clock time k months after the local time lt, same day-of-month
\* and time of day
MonthsLater(lt, k) ==
    MonthsLaterDay(CivilFromDays(lt \div MinutesPerDay), k) * MinutesPerDay
    + (lt % MinutesPerDay)

\* whether the last call searched with a MONTHLY rule from an anchor whose
\* day-of-month is at most 28
MonthlyFromEarlyDay ==
    /\ Searched
    /\ parseRecurrence(calc.rule).freq = "MONTHLY"
    /\ GetDate(tz, calc.scheduled.t) <= 28

\* C12: for a MONTHLY rule with integer interval k >= 1 and an
\* anchor on a day-of-month of at most 28 the result is the time with the
\* same day-of-month and time of day exactly k calendar months later.
C12_MonthlyExactlyKMonths ==
    MonthlyFromEarlyDay =>
        /\ calc.res.found
        /\ calc.res.t = UTCOfLocal(tz, MonthsLater(LocalOf(tz, calc.scheduled.t),
                                                   parseRecurrence(calc.rule).interval))

\* whether the last call searched with a MONTHLY rule from an anchor whose
\* day-of-month the month after the anchor's does not have
MonthlyFromLongDay ==
    /\ Searched
    /\ parseRecurrence(calc.rule).freq = "MONTHLY"
    /\ GetDate(tz, calc.scheduled.t) >= 29
    /\ CivilFromDays(MonthLater(CivilFromDays(LocalDay(tz, calc.scheduled.t)))).d
          # GetDate(tz, calc.scheduled.t)

\* C21: for a MONTHLY rule whose anchor day-of-month (29, 30 or 31) does not
\* exist in the month after the anchor, the result is a time (not none) in a
\* later month on the anchor's day-of-month.
C21_MonthlySkipsShortMonth ==
    MonthlyFromLongDay =>
        /\ calc.res.found
        /\ GetDate(tz, calc.res.t) = GetDate(tz, calc.scheduled.t)
        /\ GetFullYear(tz, calc.res.t) * 12 + GetMonth(tz, calc.res.t)
             > GetFullYear(tz, calc.scheduled.t) * 12 + GetMonth(tz, calc.scheduled.t)

\* whether the last call searched with a WEEKLY rule without weekdays
WeeklyUnfiltered ==
    /\ Searched
    /\ parseRecurrence(calc.rule).freq = "WEEKLY"
    /\ parseRecurrence(calc.rule).byDay = <<>>

\* C22: for a WEEKLY rule with an empty weekday set and any interval n >= 1
\* the result is on the calendar day immediately after the anchor's.
C22_WeeklyUnfilteredNextDay ==
    WeeklyUnfiltered =>
        /\ calc.res.found
        /\ LocalDay(tz, calc.res.t) = LocalDay(tz, calc.scheduled.t) + 1

\* the value of the last INTERVAL pair of the parts that is a positive whole
\* number, or prior when there is none
RECURSIVE LastWholeInterval(_, _)
LastWholeInterval(parts, prior) ==
    IF parts = <<>> THEN prior
    ELSE LET part == Head(parts)
         IN  LastWholeInterval(Tail(parts),
                IF /\ ToUpperCase(part.key) = "INTERVAL"
                   /\ ~part.val.nan /\ part.val.v > 0 /\ part.val.den = 1
                THEN part.val.v ELSE prior)

\* C23: the parsed interval is a positive integer for every rule text: an
\* INTERVAL value that is non-numeric, zero, negative or not a whole number
\* is ignored and the interval keeps its prior value (1, or the value of an
\* earlier valid INTERVAL pair).
C23_IntervalPositiveInteger ==
    calc.pc = "done" =>
        /\ parseRecurrence(calc.rule).den = 1
        /\ parseRecurrence(calc.rule).interval >= 1
        /\ parseRecurrence(calc.rule).interval = LastWholeInterval(calc.rule.parts, 1)

\* C24: every time returned is at least one whole day (24 hours) after the
\* anchor and is the candidate reached from the anchor by n steps of the
\* rule (days, or months for MONTHLY) for some n from 1 to 500; the anchor
\* or an earlier time is never returned.
C24_ResultAfterAnchor ==
    (calc.pc = "done" /\ calc.res.found) =>
        /\ calc.scheduled.kind = "time"
        /\ calc.res.t - calc.scheduled.t >= MinutesPerDay
        /\ calc.res.iterations \in 1..maxIterations
        /\ calc.res.t = Stepped(tz, calc.scheduled.t, parseRecurrence(calc.rule),
                                calc.res.iterations)[calc.res.iterations]

\* C24 witness: a result found in the second round for a daily rule across
\* the start of daylight saving, where the candidate of the next calendar
\* day is less than 24 hours after the anchor
C24_Witness ==
    /\ calc.pc = "done"
    /\ calc.res.found
    /\ parseRecurrence(calc.rule).freq = "DAILY"
    /\ AddLocalDay(tz, calc.scheduled.t) - calc.scheduled.t < MinutesPerDay
    /\ calc.res.iterations = 2

\* whether the last call searched with a rule whose FREQ value is none of
\* DAILY, WEEKLY, MONTHLY
UnknownFreq ==
    /\ Searched
    /\ parseRecurrence(calc.rule).freq \notin {"DAILY", "WEEKLY", "MONTHLY"}

\* C19: a rule whose FREQ value is present but none of DAILY, WEEKLY, MONTHLY
\* gives, for every anchor and interval, the result of FREQ=DAILY with the
\* same interval.
C19_UnknownFreqAsDaily ==
    UnknownFreq =>
        LET daily == computeNextOccurrence(tz,
                        FreqRule("DAILY", parseRecurrence(calc.rule).interval),
                        calc.scheduled)
        IN  /\ calc.res.found = daily.found
            /\ calc.res.t = daily.t

\* whether the rule text has a pair KEY=value with the key k (in any case)
\* and a non-empty value
HasPair(rrule, k) ==
    \E i \in 1..Len(rrule.parts) :
        /\ ToUpperCase(rrule.parts[i].key) = k
        /\ rrule.parts[i].val.txt # ""

\* C20: rule text that is empty, only the RRULE: prefix, or without a FREQ
\* pair parses to no frequency, with interval 1 and no weekdays unless it
\* carries an INTERVAL or BYDAY pair; and for every rule without frequency
\* the result is none for every anchor.
C20_InertWithoutFreq ==
    calc.pc = "done" =>
        LET parsed == parseRecurrence(calc.rule)
        IN  /\ ~HasPair(calc.rule, "FREQ") =>
                  /\ parsed.freq = ""
                  /\ ~HasPair(calc.rule, "INTERVAL") => parsed.interval = 1
                  /\ ~HasPair(calc.rule, "BYDAY") => parsed.byDay = <<>>
            /\ parsed.freq = "" => ~calc.res.found

\* C20 witness: a call with a valid anchor and a rule text that carries an
\* interval but no FREQ pair
C20_Witness ==
    /\ calc.pc = "done"
    /\ calc.scheduled.kind = "time"
    /\ ~HasPair(calc.rule, "FREQ")
    /\ parseRecurrence(calc.rule).interval = 2
    /\ ~calc.res.found

(***************************************************************************)
(* Properties of the name generator                                        *)
(***************************************************************************)
\* the date stamps of a base, and its other tokens without the blanks
RECURSIVE DateTokens(_)
DateTokens(q) ==
    IF q = <<>> THEN <<>>
    ELSE (IF Head(q).k = "date" THEN <<Head(q)>> ELSE <<>>) \o DateTokens(Tail(q))

RECURSIVE WordTokens(_)
WordTokens(q) ==
    IF q = <<>> THEN <<>>
    ELSE (IF Head(q).k = "w" THEN <<Head(q)>> ELSE <<>>) \o WordTokens(Tail(q))

\* whether a base ends with a date stamp
EndsWithDate(q) == q # <<>> /\ q[Len(q)].k = "date"

\* C13: for a source name whose base ends with a date stamp and every target
\* date d, also the date already in the name, the result has the same
\* extension, the trailing stamp replaced by d and no further date stamp;
\* and generating from the result with a second date gives what generating
\* from the source with that date gives.
C13_NoDateAccumulation ==
    (calc.pc = "named" /\ EndsWithDate(calc.name.base)) =>
        /\ calc.once.ext = calc.name.ext
        /\ EndsWithDate(calc.once.base)
        /\ calc.once.base[Len(calc.once.base)] = DT(ISODate(calc.d1))
        /\ Len(DateTokens(calc.once.base)) = Len(DateTokens(calc.name.base))
        /\ WordTokens(calc.once.base) = WordTokens(calc.name.base)
        /\ calc.twice = calc.direct

(***************************************************************************)
(* Properties of the tag operations                                        *)
(***************************************************************************)
\* the set of the strings of a stored tags field, as stored
TagSet(tags) == {tags.items[i] : i \in 1..Len(tags.items)}

\* the set of the normalized, non-empty strings of a stored tags field
NormalizedSet(tags) ==
    {NormalizeAll(tags.items)[i] : i \in 1..Len(NormalizeAll(tags.items))}

\* whether a stored tags field is a set of normalized strings: absent or
\* a list whose entries are non-empty strings that start with none of '#',
\* '-' and white space, no two of them equal
IsNormalizedSet(tags) ==
    /\ tags.kind \in {"absent", "array"}
    /\ \A i \in 1..Len(tags.items) :
          /\ tags.items[i].str
          /\ tags.items[i].q # <<>>
          /\ Head(tags.items[i].q) \notin {HASH, DASH, SP}
    /\ \A i, j \in 1..Len(tags.items) : tags.items[i] = tags.items[j] => i = j

\* C25: after an add-tag or remove-tag operation the stored tags of each
\* artifact operated on is a set of normalized strings (no entry empty or
\* starting with '#', '-' or white space, none twice); adding a tag that is
\* present in some spelling leaves the set unchanged; a removed tag is not
\* a member afterwards.
C25_TagsNormalizedSet ==
    last.op \in {"add", "remove"} =>
        \A f \in last.files :
            /\ (last.op = "remove" \/ last.tag # <<>>) => IsNormalizedSet(store[f].tags)
            /\ (last.op = "add" /\ Str(last.tag) \in NormalizedSet(last.before[f].tags))
                  => NormalizedSet(store[f].tags) = NormalizedSet(last.before[f].tags)
            /\ last.op = "remove" => Str(last.tag) \notin TagSet(store[f].tags)

(***************************************************************************)
(* Properties of the persistent menus                                      *)
(***************************************************************************)
\* C28: after every call of ensureMenus each key of the menus map is a view
\* that is open and has a file, and no entry has neither a reading nor a
\* live menu; after detach the map is empty.
C28_MenusOfOpenViews ==
    /\ last.op = "ensure" =>
          \A v \in DOMAIN ui.menus :
              /\ ui.views[v].open /\ ui.views[v].file
              /\ ~(ui.menus[v].reading = "none" /\ ui.menus[v].live = "none")
    /\ last.op = "detach" => DOMAIN ui.menus = {}

\* C28 witness: after a call of ensureMenus one view is closed and has no
\* entry, the other is open in live preview without reading container and
\* has a live menu only
C28_Witness ==
    /\ last.op = "ensure"
    /\ ~ui.views["v1"].open /\ "v1" \notin DOMAIN ui.menus
    /\ ui.views["v2"].live /\ ~ui.views["v2"].preview
    /\ "v2" \in DOMAIN ui.menus
    /\ ui.menus["v2"] = [reading |-> "none", live |-> "attached"]

(***************************************************************************)
(* C29 as stated: the MenuController has at most one floating menu and at  *)
(* most one recurrence modal, and whenever no floating menu is active,     *)
(* lastFiles and lastContext are null and no recurrence modal or           *)
(* reposition listener remains registered.                                 *)
(***************************************************************************)
ModalEls == ui.modalEls.menu + ui.modalEls.view

C30_FlagWindow ==
    /\ last.op = "native" => ui.ignoreNextContext
    /\ ui.ignoreNextContext => ui.timers # <<>>
    /\ Len(ui.timers) <= ui.calls
    /\ ui.swallowed <= ui.calls
    /\ last.op = "contextmenu" /\ last.swallowed =>
          last.pending /\ ~ui.ignoreNextContext

C30_IgnoreNextContext ==
    /\ []C30_FlagWindow
    /\ ui.ignoreNextContext ~> ~ui.ignoreNextContext

\* a contextmenu event was swallowed, the timer callbacks have run since,
\* and the next contextmenu event on a link opened the floating menu
C30_Witness ==
    /\ ui.swallowed > 0
    /\ ui.timers = <<>>
    /\ last.op = "contextmenu"
    /\ ~last.swallowed
    /\ ui.activeMenuEl

====
